---- MODULE Spec2Model ----
(***************************************************************************)
(* Granola -> Obsidian pipeline (src/src/processor.py, sync_state.py,      *)
(* granola_fetcher.py, obsidian_writer.py, scripts/granola_sync.py), the   *)
(* Slack CDP monitor (src/src/slack_cdp_monitor.py), the credential        *)
(* manager (src/src/credential_manager.py), the text extraction of the     *)
(* format converter (src/src/format_converter.py), the health check and    *)
(* the weekly validation (scripts/health_check.py, weekly_validation.py).  *)
(*                                                                         *)
(* Document ids are strings in the program; here they are small integers   *)
(* whose numeric order stands for the string order sorted() uses.          *)
(* Local files under logs/ are written without I/O errors; the network     *)
(* fetch and the vault writer may fail.                                    *)
(***************************************************************************)
EXTENDS Integers, Sequences, FiniteSets, TLC

VARIABLES
    stateFile,        \* logs/.sync_state.json
    lastSync,         \* logs/.last_sync
    vault,            \* <vault>/00_Inbox/Meetings: file name -> note
    statusFile,       \* what this process has written to logs/status.json
    now,              \* datetime.now(), a logical clock
    pc,               \* position of the sync process
    state,            \* SyncStateManager.state of the live process
    llm_parser,       \* GranolaProcessor.llm_parser is not None
    ndocs,            \* len(documents), the list fetch_new_documents returned
    idx,              \* loop index i of process_new_meetings (1-based)
    doc,              \* documents[idx] once the writer has written its note
    filepath,         \* the path write_meeting_note returned for it
    results,          \* the results dictionary of the run
    exitCode,         \* sys.exit code of the last finished process
    lastEvent,        \* what the last step did, and the document it did it to
    written,          \* ids whose note write_meeting_note wrote in this run
    persistedAtStart, \* ids in the state file when this run's processor was built
    marked,           \* ids passed to mark_processed / mark_batch_processed
    seen_message_ids, \* SlackCDPMonitor.seen_message_ids
    returned,         \* message id -> times filter_new_messages returned it
    lastCall,         \* input and output of the last filter_new_messages call
    calls,            \* number of filter_new_messages calls so far
    mpc,              \* position of the monitor process in monitor_loop
    max_iterations,   \* the argument of monitor_loop
    iteration,        \* the local counter of monitor_loop
    tab,              \* SlackCDPMonitor.tab is set
    stops,            \* calls of tab.stop(), made by disconnect
    extracts,         \* calls of extract_messages
    dailyFile,        \* <vault>/00_Inbox/Slack/<today> - Slack Captures.md
    monEvent,         \* what the last step of the monitor process did
    hpc,              \* position of the health check process
    issues,           \* HealthChecker.issues
    warnings,         \* HealthChecker.warnings
    health,           \* result["status"] and the exit code of health_check.py
    wpc,              \* position of the weekly validation process
    granola_meetings, \* what _fetch_granola_meetings returned
    obsidian_meetings,\* ids found in the text of the notes _get_obsidian_meetings returned
    validation,       \* the result of validate_week
    granola_fetch,    \* how the fetch of _fetch_granola_meetings ended
    cpc,              \* position of a process that builds a CredentialManager
    configFile,       \* ~/.config/task-centralization/credentials.json
    sessionFile,      \* the Granola app's supabase.json
    credentials,      \* CredentialManager.credentials
    session_read,     \* the manager opened the session file
    got,              \* what each getter of the manager answered
    xpc,              \* position of a process that converts a text leaf
    node,             \* the text leaf given to _extract_text
    following,        \* the nodes after the leaf in the content list
    extracted,        \* what _extract_text returned
    dpc,              \* position of a process that detects task messages
    detected,         \* input and output of detect_task_creating_messages
    ppc,              \* position of a monitor followed message by message
    monitor_llm,      \* SlackCDPMonitor.llm_parser is not None
    offered,          \* message id -> times it was sent to the LLM
    failedIds,        \* ids sent to the LLM in a pass that wrote no task
    shown,            \* ids in the view of the last pass
    passEvent,        \* how the last pass ended
    passes,           \* passes made so far
    specific,         \* request and outcome of the last process_specific_document call
    procs,            \* the two sync processes: position, state in memory, document in hand
    noteWrites,       \* document id -> notes written for it by the two processes
    markedBy,         \* the ids each of the two processes has marked
    lostIds,          \* ids one process marked that a later save of the other left out
    overlapped        \* one process was started while the other was running

vars == <<stateFile, lastSync, vault, statusFile, now, pc, state, llm_parser,
          ndocs, idx, doc, filepath, results, exitCode, lastEvent, written,
          persistedAtStart, marked, seen_message_ids, returned, lastCall,
          calls, mpc, max_iterations, iteration, tab, stops, extracts,
          dailyFile, monEvent, hpc, issues, warnings, health, wpc,
          granola_meetings, obsidian_meetings, validation, granola_fetch, cpc,
          configFile, sessionFile, credentials, session_read, got, xpc, node,
          following, extracted, dpc, detected, ppc, monitor_llm, offered,
          failedIds, shown, passEvent, passes, specific, procs, noteWrites,
          markedBy, lostIds, overlapped>>

syncVars == <<stateFile, lastSync, vault, statusFile, now, pc, state,
              llm_parser, ndocs, idx, doc, filepath, results, exitCode,
              lastEvent, written, persistedAtStart, marked>>

monVars == <<seen_message_ids, returned, lastCall, calls>>

loopVars == <<mpc, max_iterations, iteration, tab, stops, extracts, dailyFile,
              monEvent>>

healthVars == <<hpc, issues, warnings, health>>

weeklyVars == <<wpc, granola_meetings, obsidian_meetings, validation, granola_fetch>>

credVars == <<cpc, configFile, sessionFile, credentials, session_read, got>>

convVars == <<xpc, node, following, extracted>>

detectVars == <<dpc, detected, ppc, monitor_llm, offered, failedIds, shown, passEvent, passes>>

modeVars == <<specific>>

raceVars == <<procs, noteWrites, markedBy, lostIds, overlapped>>

\* the stand-alone scripts and libraries
auxVars == <<healthVars, weeklyVars, credVars, convVars, detectVars, modeVars, raceVars>>

\* what the sync pipeline and a tracker used on its own leave alone
notSync == <<monVars, loopVars, auxVars>>

\* what the Slack monitor leaves alone
notMonitor == <<syncVars, auxVars>>

\* what a filter_new_messages call made on its own leaves alone
notFilter == <<notMonitor, loopVars>>

\* what the health check leaves alone
notHealth == <<syncVars, monVars, loopVars, weeklyVars, credVars, convVars, detectVars, modeVars, raceVars>>

\* what the weekly validation leaves alone
notWeekly == <<syncVars, monVars, loopVars, healthVars, credVars, convVars, detectVars, modeVars, raceVars>>

\* what the credential manager leaves alone
notCred == <<syncVars, monVars, loopVars, healthVars, weeklyVars, convVars, detectVars, modeVars, raceVars>>

\* what the format converter leaves alone
notConv == <<syncVars, monVars, loopVars, healthVars, weeklyVars, credVars, detectVars, modeVars, raceVars>>

\* what the task detection and the passes of the monitor pipeline leaves alone
notDetect == <<syncVars, monVars, loopVars, healthVars, weeklyVars, credVars, convVars, modeVars, raceVars>>

\* what the document and backfill modes of the processor leaves alone
notModes == <<syncVars, monVars, loopVars, healthVars, weeklyVars, credVars, convVars, detectVars, raceVars>>

\* what two sync processes run side by side leaves alone
notRace == <<syncVars, monVars, loopVars, healthVars, weeklyVars, credVars, convVars, detectVars, modeVars>>

-----------------------------------------------------------------------------
(* Bounds *)

MaxDocId == 1      \* document ids present in the API answers: 1..MaxDocId
MaxNames == 1      \* distinct "<date> - <sanitized title>.md" file names
MaxFetch == 2      \* longest list the API returns
MaxRuns == 2       \* sync processes started one after the other
MaxGranolaId == 4  \* ids given to a SyncStateManager used on its own: 1..MaxGranolaId
MaxBatch == 3      \* longest list given to mark_batch_processed
MaxSaves == 3      \* state-file writes of a SyncStateManager used on its own
MaxMsgId == 2      \* synthetic message ids in the Slack view: 1..MaxMsgId
MaxMessages == 2   \* longest list extract_messages returns
MaxCalls == 2      \* calls of filter_new_messages in one process
MaxCap == 2        \* iteration caps given to monitor_loop: 0..MaxCap
MaxIterations == 3 \* passes of the while loop of monitor_loop that are followed
MaxTasks == 1      \* longest task list the LLM answer parses to
MaxMeetingId == 2  \* ids of the meetings of the validated week: 1..MaxMeetingId
MaxMeetings == 3   \* longest list _fetch_granola_meetings returns
MaxMarks == 3      \* longest marks array of a text leaf
MaxDetect == 2     \* longest list given to detect_task_creating_messages
MaxPasses == 2     \* passes of a monitor followed message by message
MaxView == 1       \* longest view of a pass followed message by message
MaxLookup == 1     \* longest list get_document_by_id searches
MaxRaceDocs == 2   \* longest list fetched by one of two concurrent processes

-----------------------------------------------------------------------------
(* Documents *)

\* doc.get("id", "unknown"): the default id of a document without an "id" key
UnknownId == 0
\* value of doc.id standing for "the key is absent"
MissingId == MaxDocId + 1
\* value of doc.id standing for an unhashable JSON value (a list or an object)
UnhashableId == MaxDocId + 2

Ids == 0..MaxDocId
Names == 1..MaxNames

\* valid_meeting: JSON true, JSON false, or key absent
ValidValues == {"true", "false", "absent"}

Docs == [id : (1..MaxDocId) \cup {MissingId, UnhashableId},
         valid_meeting : ValidValues,
         name : Names]

\* no document in hand
NoDoc == [id |-> MissingId, valid_meeting |-> "absent", name |-> 0]

\* doc_id = doc.get("id", "unknown")
doc_id(d) == IF d.id = MissingId THEN UnknownId ELSE d.id

\* mutant: the default of MetadataExtractor (False) used for an absent field
valid_meeting_default_false(d) == d.valid_meeting = "true"

\* doc.get("valid_meeting", True)
valid_meeting(d) == IF d.valid_meeting = "absent" THEN TRUE
                   ELSE d.valid_meeting = "true"

-----------------------------------------------------------------------------
(* SyncStateManager *)

Range(s) == {s[k] : k \in 1..Len(s)}

\* sorted(self.state["processed_ids"])
RECURSIVE sorted(_)
sorted(S) ==
    IF S = {} THEN <<>>
    ELSE LET m == CHOOSE x \in S : \A y \in S : x <= y
         IN <<m>> \o sorted(S \ {m})

\* last_pruned: None
NotPruned == 0 - 1

\* the state _load_state returns when there is no readable file
EmptyState == [processed_ids |-> {}, last_pruned |-> NotPruned, total_processed |-> 0]

AbsentFile == [kind |-> "absent", processed_ids |-> <<>>, last_pruned |-> NotPruned,
               total_processed |-> 0, updated_at |-> 0]
\* a file that is empty or cut short: json.load raises JSONDecodeError
EmptyFile == [kind |-> "empty", processed_ids |-> <<>>, last_pruned |-> NotPruned,
              total_processed |-> 0, updated_at |-> 0]

\* SyncStateManager._load_state
_load_state(file) ==
    IF file.kind = "json"
    THEN [processed_ids |-> Range(file.processed_ids),
          last_pruned |-> file.last_pruned,
          total_processed |-> file.total_processed]
    ELSE EmptyState

\* SyncStateManager._save_state: the file written at time t for in-memory state st
_save_state(st, t) ==
    [kind |-> "json",
     processed_ids |-> sorted(st.processed_ids),
     last_pruned |-> st.last_pruned,
     total_processed |-> st.total_processed,
     updated_at |-> t]

\* SyncStateManager.is_processed
is_processed(st, granola_id) == granola_id \in st.processed_ids

\* mutant: the id is added in memory and the file is not rewritten
mark_processed_unsaved(st, file, granola_id, t) ==
    IF granola_id \notin st.processed_ids
    THEN <<[st EXCEPT !.processed_ids = @ \cup {granola_id},
                      !.total_processed = @ + 1], file>>
    ELSE <<st, file>>

\* SyncStateManager.mark_processed at time t: <<new in-memory state, new file>>
mark_processed(st, file, granola_id, t) ==
    IF granola_id \notin st.processed_ids
    THEN LET st2 == [st EXCEPT !.processed_ids = @ \cup {granola_id},
                               !.total_processed = @ + 1]
         IN <<st2, _save_state(st2, t)>>
    ELSE <<st, file>>

\* new_ids = [gid for gid in granola_ids if gid not in processed_ids]
RECURSIVE new_ids(_, _)
new_ids(st, granola_ids) ==
    IF granola_ids = <<>> THEN <<>>
    ELSE IF Head(granola_ids) \notin st.processed_ids
         THEN <<Head(granola_ids)>> \o new_ids(st, Tail(granola_ids))
         ELSE new_ids(st, Tail(granola_ids))

\* mutant: the batch is saved before the new ids are added
mark_batch_processed_stale(st, file, granola_ids, t) ==
    LET new == new_ids(st, granola_ids)
    IN IF new # <<>>
       THEN <<[st EXCEPT !.processed_ids = @ \cup Range(new),
                         !.total_processed = @ + Len(new)],
              _save_state(st, t)>>
       ELSE <<st, file>>

\* SyncStateManager.mark_batch_processed at time t
mark_batch_processed(st, file, granola_ids, t) ==
    LET new == new_ids(st, granola_ids)
    IN IF new # <<>>
       THEN LET st2 == [st EXCEPT !.processed_ids = @ \cup Range(new),
                                  !.total_processed = @ + Len(new)]
            IN <<st2, _save_state(st2, t)>>
       ELSE <<st, file>>

\* SyncStateManager.prune_old_ids at time t: only the timestamp is updated
prune_old_ids(st, t) ==
    LET st2 == [st EXCEPT !.last_pruned = t]
    IN <<st2, _save_state(st2, t)>>

\* ids a freshly constructed tracker on this file reports as processed
PersistedIds == _load_state(stateFile).processed_ids

-----------------------------------------------------------------------------
(* Vault notes *)

NoNote == [exists |-> FALSE, granola_id |-> UnknownId, enriched |-> FALSE]

\* ObsidianWriter.write_meeting_note, success branch: the file written
write_meeting_note(v, d) ==
    [v EXCEPT ![d.name] =
        [exists |-> TRUE, granola_id |-> d.id, enriched |-> FALSE]]

\* GranolaProcessor._enrich_note_with_llm, success branch: the file rewritten
_enrich_note_with_llm(v, name) ==
    [v EXCEPT ![name] = [@ EXCEPT !.enriched = TRUE]]

-----------------------------------------------------------------------------
(* Run results *)

NewResults == [timestamp |-> now, fetched |-> 0, processed |-> 0, failed |-> 0,
               skipped |-> 0, notes_created |-> <<>>, errors |-> <<>>]

NoStatus == [exists |-> FALSE, last_run |-> 0, fetched |-> 0, processed |-> 0,
             failed |-> 0, status |-> "", errors |-> <<>>]

\* scripts/granola_sync.py write_sync_status
write_sync_status(res) ==
    [exists |-> TRUE,
     last_run |-> res.timestamp,
     fetched |-> res.fetched,
     processed |-> res.processed,
     failed |-> res.failed,
     status |-> IF res.failed = 0 THEN "success" ELSE "partial_failure",
     errors |-> res.errors]

NoEvent == [op |-> "none", doc |-> NoDoc]

NoExit == 0 - 1

-----------------------------------------------------------------------------
(* GranolaProcessor: the document mode and the backfill mode *)

\* all lists of documents of length <= n
RECURSIVE DocLists(_)
DocLists(n) ==
    IF n = 0 THEN {<<>>}
    ELSE LET shorter == DocLists(n - 1)
         IN shorter \cup {Append(l, d) : l \in {x \in shorter : Len(x) = n - 1},
                                         d \in Docs}

\* what fetch_documents returned: None, or a list
FetchResults(n) ==
    {[ok |-> FALSE, docs |-> <<>>]} \cup {[ok |-> TRUE, docs |-> l] : l \in DocLists(n)}

\* GranolaFetcher.get_document_by_id: the first document of the list whose id
\* is the one asked for; None (found false) when the fetch failed, the list is
\* empty or no document carries the id
get_document_by_id(fetched, id) ==
    IF ~fetched.ok \/ fetched.docs = <<>>
    THEN [found |-> FALSE, doc |-> NoDoc]
    ELSE IF \E k \in 1..Len(fetched.docs) : fetched.docs[k].id = id
    THEN [found |-> TRUE,
          doc |-> fetched.docs[CHOOSE k \in 1..Len(fetched.docs) :
                      /\ fetched.docs[k].id = id
                      /\ \A j \in 1..(k - 1) : fetched.docs[j].id # id]]
    ELSE [found |-> FALSE, doc |-> NoDoc]

\* no call has been made
NoSpecific == [doc_id |-> UnknownId, found |-> FALSE, path |-> FALSE,
               success |-> FALSE]

\* mutant: a document that was found counts as processed
process_specific_document_found(v, fetched, id, path) ==
    LET r == get_document_by_id(fetched, id)
    IN IF ~r.found
       THEN [vault |-> v, op |-> "specific_not_found", doc |-> NoDoc,
             call |-> [doc_id |-> id, found |-> FALSE, path |-> FALSE,
                       success |-> FALSE]]
       ELSE IF path
       THEN [vault |-> write_meeting_note(v, r.doc), op |-> "specific_written",
             doc |-> r.doc,
             call |-> [doc_id |-> id, found |-> TRUE, path |-> TRUE,
                       success |-> TRUE]]
       ELSE [vault |-> v, op |-> "specific_write_failed", doc |-> r.doc,
             call |-> [doc_id |-> id, found |-> TRUE, path |-> FALSE,
                       success |-> TRUE]]

\* GranolaProcessor.process_specific_document on the answer of the API, path
\* telling whether write_meeting_note returned a path: the vault it leaves,
\* what it did, and the record of the call with the value returned
process_specific_document(v, fetched, id, path) ==
    LET r == get_document_by_id(fetched, id)
    IN IF ~r.found
       THEN [vault |-> v, op |-> "specific_not_found", doc |-> NoDoc,
             call |-> [doc_id |-> id, found |-> FALSE, path |-> FALSE,
                       success |-> FALSE]]
       ELSE IF path
       THEN [vault |-> write_meeting_note(v, r.doc), op |-> "specific_written",
             doc |-> r.doc,
             call |-> [doc_id |-> id, found |-> TRUE, path |-> TRUE,
                       success |-> TRUE]]
       ELSE [vault |-> v, op |-> "specific_write_failed", doc |-> r.doc,
             call |-> [doc_id |-> id, found |-> TRUE, path |-> FALSE,
                       success |-> FALSE]]

\* the days argument of process_backfill
Days == {1, 7}

\* process_backfill, lines 205-214: its results dictionary
NewBackfillResults(t, days) ==
    [timestamp |-> t, days |-> days, fetched |-> 0, processed |-> 0,
     failed |-> 0, skipped |-> 0, notes_created |-> <<>>, errors |-> <<>>]

\* mutant: documents that are not valid meetings are skipped
route_backfill_valid_only(st, d) ==
    IF d.id = UnhashableId THEN "exception"
    ELSE IF is_processed(st, doc_id(d)) THEN "skip_processed"
    ELSE IF ~valid_meeting(d) THEN "skip_invalid"
    ELSE "write"

\* process_backfill, lines 236-244: what the loop body does with a document
\* before the writer is called
route_backfill(st, d) ==
    IF d.id = UnhashableId THEN "exception"
    ELSE IF is_processed(st, doc_id(d)) THEN "skip_processed"
    ELSE "write"

\* process_backfill, lines 253-255: the writer returned None
count_failed_backfill(res) == [res EXCEPT !.failed = @ + 1]

-----------------------------------------------------------------------------
(* Two sync processes on the same state file and vault *)

Procs == {1, 2}

\* a process that has not been started
IdleProc == [pc |-> "idle", state |-> EmptyState, doc |-> NoDoc, left |-> 0]

\* the process is between its construction and its return
running(proc) == proc.pc \in {"doc", "mark"}

\* mutant: a processor starts from an empty Sync State
construct_state_empty(file) == EmptyState

\* GranolaProcessor.__init__, line 33: self.state = SyncStateManager(), which
\* reads the state file once
construct_state(file) == _load_state(file)

-----------------------------------------------------------------------------
(* SlackCDPMonitor: messages and the filter of already seen ones *)

\* msg.get("id", ""): the empty id of a message without one
EmptyMsgId == 0
MsgIds == 0..MaxMsgId

\* two messages may carry the same synthetic id and differ in their content
Messages == [id : MsgIds, content : {"please review", "thanks"}]

\* all lists of messages of length <= n
RECURSIVE MessageLists(_)
MessageLists(n) ==
    IF n = 0 THEN {<<>>}
    ELSE LET shorter == MessageLists(n - 1)
         IN shorter \cup {Append(l, m) : l \in {x \in shorter : Len(x) = n - 1},
                                         m \in Messages}

\* mutant: a new message is returned and its id is not recorded
RECURSIVE filter_new_messages_forgetful(_, _)
filter_new_messages_forgetful(seen, messages) ==
    IF messages = <<>> THEN <<<<>>, seen>>
    ELSE LET msg == Head(messages)
             rest == filter_new_messages_forgetful(seen, Tail(messages))
         IN IF msg.id # EmptyMsgId /\ msg.id \notin seen
            THEN <<<<msg>> \o rest[1], rest[2]>>
            ELSE rest

\* SlackCDPMonitor.filter_new_messages: <<new_messages, seen_message_ids after>>
RECURSIVE filter_new_messages(_, _)
filter_new_messages(seen, messages) ==
    IF messages = <<>> THEN <<<<>>, seen>>
    ELSE LET msg == Head(messages)
         IN IF msg.id # EmptyMsgId /\ msg.id \notin seen
            THEN LET rest == filter_new_messages(seen \cup {msg.id}, Tail(messages))
                 IN <<<<msg>> \o rest[1], rest[2]>>
            ELSE filter_new_messages(seen, Tail(messages))

\* number of messages of the list that carry the id
RECURSIVE Occurrences(_, _)
Occurrences(msgs, id) ==
    IF msgs = <<>> THEN 0
    ELSE (IF Head(msgs).id = id THEN 1 ELSE 0) + Occurrences(Tail(msgs), id)

-----------------------------------------------------------------------------
(* SlackCDPMonitor: the heuristic that picks the messages sent to the LLM *)

UpperCase == <<"A", "B", "C", "D", "E", "F", "G", "H", "I", "J", "K", "L", "M",
               "N", "O", "P", "Q", "R", "S", "T", "U", "V", "W", "X", "Y", "Z">>

LowerCase == <<"a", "b", "c", "d", "e", "f", "g", "h", "i", "j", "k", "l", "m",
               "n", "o", "p", "q", "r", "s", "t", "u", "v", "w", "x", "y", "z">>

\* str.lower(), on a text given as its sequence of characters
lower(text) ==
    [k \in 1..Len(text) |->
        IF \E j \in 1..Len(UpperCase) : UpperCase[j] = text[k]
        THEN LowerCase[CHOOSE j \in 1..Len(UpperCase) : UpperCase[j] = text[k]]
        ELSE text[k]]

\* `indicator in text`
contains(text, indicator) ==
    \E k \in 0..(Len(text) - Len(indicator)) :
        SubSeq(text, k + 1, k + Len(indicator)) = indicator

\* detect_task_creating_messages, lines 291-304
task_indicators ==
    << <<"c", "a", "n", " ", "y", "o", "u">>,
       <<"c", "o", "u", "l", "d", " ", "y", "o", "u">>,
       <<"p", "l", "e", "a", "s", "e">>,
       <<"n", "e", "e", "d", " ", "t", "o">>,
       <<"t", "o", "d", "o">>,
       <<"a", "c", "t", "i", "o", "n", " ", "i", "t", "e", "m">>,
       <<"@">>,
       <<"?">>,
       <<"s", "h", "o", "u", "l", "d">>,
       <<"m", "u", "s", "t">>,
       <<"b", "l", "o", "c", "k", "e", "d">>,
       <<"h", "e", "l", "p">> >>

\* the texts of the messages in the view: "Help me", "ok" and "Why?"
Contents == { <<"H", "e", "l", "p", " ", "m", "e">>,
              <<"o", "k">>,
              <<"W", "h", "y", "?">> }

\* a message as extract_messages builds it, its content spelled out
SlackMessages == [id : MsgIds, content : Contents]

\* all lists of such messages of length <= n
RECURSIVE SlackMessageLists(_)
SlackMessageLists(n) ==
    IF n = 0 THEN {<<>>}
    ELSE LET shorter == SlackMessageLists(n - 1)
         IN shorter \cup {Append(l, m) : l \in {x \in shorter : Len(x) = n - 1},
                                         m \in SlackMessages}

\* the message after the loop body set msg["likely_task"]
with_likely_task(msg, value) ==
    [id |-> msg.id, content |-> msg.content, likely_task |-> value]

\* mutant: the indicators are looked for in the content as written
detect_task_creating_messages_cased(llm, messages) ==
    IF ~llm \/ messages = <<>>
    THEN [task_messages |-> <<>>, messages |-> messages]
    ELSE LET flagged == [k \in 1..Len(messages) |->
                 with_likely_task(messages[k],
                     \E j \in 1..Len(task_indicators) :
                         contains(messages[k].content, task_indicators[j]))]
         IN [task_messages |-> SelectSeq(flagged, LAMBDA m : m.likely_task),
             messages |-> flagged]

\* SlackCDPMonitor.detect_task_creating_messages: the list it returns and the
\* messages of the caller's list as the call left them
detect_task_creating_messages(llm, messages) ==
    IF ~llm \/ messages = <<>>
    THEN [task_messages |-> <<>>, messages |-> messages]
    ELSE LET flagged == [k \in 1..Len(messages) |->
                 with_likely_task(messages[k],
                     \E j \in 1..Len(task_indicators) :
                         contains(lower(messages[k].content), task_indicators[j]))]
         IN [task_messages |-> SelectSeq(flagged, LAMBDA m : m.likely_task),
             messages |-> flagged]

\* no call has been made
NoDetection == [llm |-> FALSE, messages |-> <<>>,
                out |-> [task_messages |-> <<>>, messages |-> <<>>]]

-----------------------------------------------------------------------------
(* SlackCDPMonitor: the daily capture file and the tasks written to it *)

\* max_iterations=None
NoCap == 0 - 1

\* what json.loads made of one element of the LLM answer: a task with its
\* fields, a dictionary without the "task" key, or a task one of whose strings
\* holds a lone surrogate (the JSON escape \ud83d alone), which utf-8 cannot encode
TaskKinds == {"task", "no_task_key", "unencodable"}

\* all task lists of length <= n
RECURSIVE TaskLists(_)
TaskLists(n) ==
    IF n = 0 THEN {<<>>}
    ELSE LET shorter == TaskLists(n - 1)
         IN shorter \cup {Append(l, k) : l \in {x \in shorter : Len(x) = n - 1},
                                         k \in TaskKinds}

\* the file does not exist
NoDailyFile == [exists |-> FALSE, content |-> <<>>]

\* the frontmatter block and title given to a new daily note
Frontmatter == <<"frontmatter">>

\* the text appended for a task list: the "Captured at" heading and one entry
\* per task
task_section(tasks) == <<"captured_at">> \o [k \in 1..Len(tasks) |-> "task_entry"]

IsPrefix(a, b) == Len(a) <= Len(b) /\ SubSeq(b, 1, Len(a)) = a

\* mutant: the section is written in place of the existing content
write_tasks_to_obsidian_overwrite(file, tasks) ==
    IF tasks = <<>> THEN [file |-> file, raised |-> FALSE]
    ELSE [file |-> [exists |-> TRUE, content |-> task_section(tasks)],
          raised |-> FALSE]

\* SlackCDPMonitor.write_tasks_to_obsidian: the file it leaves and whether it
\* raised. task["task"] raises KeyError while the section is built, before the
\* file is opened; open(path, "w") truncates the file and f.write(final_content)
\* raises UnicodeEncodeError when the text cannot be encoded.
write_tasks_to_obsidian(file, tasks) ==
    IF tasks = <<>> THEN [file |-> file, raised |-> FALSE]
    ELSE LET existing_content == IF file.exists THEN file.content ELSE Frontmatter
             final_content == existing_content \o task_section(tasks)
         IN IF \E k \in 1..Len(tasks) :
                    /\ tasks[k] = "no_task_key"
                    /\ \A j \in 1..(k - 1) : tasks[j] # "no_task_key"
            THEN [file |-> file, raised |-> TRUE]
            ELSE IF \E k \in 1..Len(tasks) : tasks[k] = "unencodable"
            THEN [file |-> [exists |-> TRUE, content |-> <<>>], raised |-> TRUE]
            ELSE [file |-> [exists |-> TRUE, content |-> final_content],
                  raised |-> FALSE]

-----------------------------------------------------------------------------
(* src/format_converter.py: ProseMirrorConverter._extract_text *)

\* Strings are sequences of characters. "t" is the text of a leaf, "h" the
\* href of a link, "backtick" the grave accent.
MarkTypes == {"bold", "italic", "code", "strike", "link"}

\* a mark of a type _extract_text has no branch for
OtherMark == [type |-> "underline", href |-> <<>>]

\* the entries of a marks array: the five known types (a link with an href or
\* without attrs.href, which defaults to ""), and another type
MarkValues ==
    {[type |-> t, href |-> <<>>] : t \in MarkTypes}
    \cup {[type |-> "link", href |-> <<"h">>], OtherMark}

RECURSIVE MarkLists(_)
MarkLists(n) ==
    IF n = 0 THEN {<<>>}
    ELSE MarkLists(n - 1) \cup
         {Append(l, m) : l \in {k \in MarkLists(n - 1) : Len(k) = n - 1},
                         m \in MarkValues}

\* what the f-string of a mark puts before and after the text, lines 227-237
Open(mark) ==
    CASE mark.type = "bold" -> <<"*", "*">>
      [] mark.type = "italic" -> <<"*">>
      [] mark.type = "code" -> <<"backtick">>
      [] mark.type = "strike" -> <<"~", "~">>
      [] mark.type = "link" -> <<"[">>
      [] OTHER -> <<>>

Close(mark) ==
    CASE mark.type = "bold" -> <<"*", "*">>
      [] mark.type = "italic" -> <<"*">>
      [] mark.type = "code" -> <<"backtick">>
      [] mark.type = "strike" -> <<"~", "~">>
      [] mark.type = "link" -> <<"]", "(">> \o mark.href \o <<")">>
      [] OTHER -> <<>>

\* the marks of the list that have the given type, in the order of the list
RECURSIVE OfType(_, _)
OfType(marks, t) ==
    IF marks = <<>> THEN <<>>
    ELSE (IF Head(marks).type = t THEN <<Head(marks)>> ELSE <<>>)
         \o OfType(Tail(marks), t)

\* mutant: each type present wraps once, bold first, then italic, code, strike
\* and link, whatever the order of the array
RECURSIVE apply_marks_fixed_order(_, _)
apply_marks_fixed_order(text, marks) ==
    LET order == <<"bold", "italic", "code", "strike", "link">>
        wrap[i \in 0..5] ==
            IF i = 0 THEN text
            ELSE IF OfType(marks, order[i]) = <<>> THEN wrap[i - 1]
            ELSE LET m == OfType(marks, order[i])[1]
                 IN Open(m) \o wrap[i - 1] \o Close(m)
    IN wrap[5]

\* the loop of lines 224-237: every entry of the array wraps the text built so
\* far, in the order of the array
RECURSIVE apply_marks(_, _)
apply_marks(text, marks) ==
    IF marks = <<>> THEN text
    ELSE apply_marks(Open(Head(marks)) \o text \o Close(Head(marks)),
                     Tail(marks))

\* the nodes after the marked leaf: none, a hardBreak, or a node of another
\* type without content
Tails == {<<>>, <<"hardBreak">>, <<"image">>}

\* _extract_text on the content <<leaf>> \o tail
_extract_text(leaf, tail, preserve_newlines) ==
    apply_marks(leaf.text, leaf.marks) \o
    (IF tail = <<"hardBreak">>
     THEN (IF preserve_newlines THEN <<"\n">> ELSE <<" ">>)
     ELSE <<>>)

\* no text has been extracted
NoLeaf == [text |-> <<>>, marks |-> <<>>]

-----------------------------------------------------------------------------
(* src/credential_manager.py: the credential bundle and its getters *)

\* the top-level sections of a bundle, and the fields the getters look at
Sections == {"granola", "notion", "llm", "user", "vault"}

FieldsOf(s) ==
    CASE s = "granola" -> {"access_token"}
      [] s = "notion" -> {"enabled", "api_key", "database_id"}
      [] s = "llm" -> {"provider", "api_key", "model"}
      [] s = "user" -> {"name", "email"}
      [] s = "vault" -> {"path"}

\* "<section>" not in self.credentials
AbsentSection == [present |-> FALSE, fields |-> {}, origin |-> "none"]

\* a section read from the file named by origin; a field in fields has a
\* truthy value, any other field of the section is missing from the object
Section(fields, origin) ==
    [present |-> TRUE, fields |-> fields, origin |-> origin]

\* the empty dictionary
EmptyBundle == [s \in Sections |-> AbsentSection]

\* the sections a JSON object in credentials.json can hold
ConfigSections(s) ==
    {AbsentSection} \cup {Section(F, "config") : F \in SUBSET FieldsOf(s)}

NoFile == [kind |-> "absent", bundle |-> EmptyBundle]

\* credentials.json: missing, not parseable as JSON, or a JSON object
ConfigFiles ==
    {NoFile, [kind |-> "malformed", bundle |-> EmptyBundle]} \cup
    { [kind |-> "json",
       bundle |-> [s \in Sections |->
                    CASE s = "granola" -> g
                      [] s = "notion" -> n
                      [] s = "llm" -> l
                      [] s = "user" -> u
                      [] s = "vault" -> v]] :
        g \in ConfigSections("granola"), n \in ConfigSections("notion"),
        l \in ConfigSections("llm"), u \in ConfigSections("user"),
        v \in ConfigSections("vault") }

NoSession == [kind |-> "absent", access_token |-> FALSE, user |-> FALSE]

\* supabase.json: missing, unusable (not JSON, or without a parseable
\* workos_tokens string), or an object whose workos_tokens may hold an
\* access_token and which may hold a user object
SessionFiles ==
    {NoSession, [kind |-> "malformed", access_token |-> FALSE, user |-> FALSE]}
    \cup [kind : {"json"}, access_token : BOOLEAN, user : BOOLEAN]

\* CredentialManager._load_from_granola_app
_load_from_granola_app(session) ==
    IF session.kind = "json" /\ session.access_token
    THEN [s \in Sections |->
            IF s = "granola"
            THEN Section({"access_token", "refresh_token", "expires_at",
                          "source_path"}, "session")
            ELSE AbsentSection]
    ELSE EmptyBundle

\* the top-level objects of the session file, section by section
session_sections(session) ==
    [s \in Sections |->
        IF s = "user" /\ session.kind = "json" /\ session.user
        THEN Section({"name", "email"}, "session")
        ELSE _load_from_granola_app(session)[s]]

\* mutant: the two files merged, a section of the config file replacing the
\* session file's section of the same name as a whole
_load_credentials_merged(config, session) ==
    [bundle |-> [s \in Sections |->
                    IF config.kind = "json" /\ config.bundle[s].present
                    THEN config.bundle[s]
                    ELSE session_sections(session)[s]],
     session_read |-> session.kind # "absent"]

\* CredentialManager._load_credentials: the bundle, and whether the session
\* file was opened on the way
_load_credentials(config, session) ==
    IF config.kind = "absent"
    THEN [bundle |-> _load_from_granola_app(session),
          session_read |-> session.kind # "absent"]
    ELSE IF config.kind = "json"
    THEN [bundle |-> config.bundle, session_read |-> FALSE]
    ELSE [bundle |-> EmptyBundle, session_read |-> FALSE]

\* what a getter gives back: None, a documented default, or a value made of
\* the fields named, read from the file named by origin
None == [raised |-> FALSE, kind |-> "None", fields |-> {}, origin |-> "none"]

Default(fields) ==
    [raised |-> FALSE, kind |-> "default", fields |-> fields, origin |-> "none"]

Value(fields, origin) ==
    [raised |-> FALSE, kind |-> "value", fields |-> fields, origin |-> origin]

\* the getter did not return
Raised(exception) ==
    [raised |-> TRUE, kind |-> exception, fields |-> {}, origin |-> "none"]

get_granola_token(creds) ==
    IF ~creds["granola"].present THEN None
    ELSE IF "access_token" \notin creds["granola"].fields THEN None
    ELSE Value({"access_token"}, creds["granola"].origin)

get_notion_credentials(creds) ==
    IF ~creds["notion"].present THEN None
    ELSE IF "enabled" \notin creds["notion"].fields THEN None
    ELSE IF ~({"api_key", "database_id"} \subseteq creds["notion"].fields)
    THEN None
    ELSE Value({"api_key", "database_id"}, creds["notion"].origin)

get_llm_credentials(creds) ==
    IF ~creds["llm"].present THEN None
    ELSE IF "api_key" \notin creds["llm"].fields THEN None
    ELSE Value({"provider", "api_key", "model"}, creds["llm"].origin)

get_user_info(creds) ==
    IF ~creds["user"].present THEN Default({"name", "email"})
    ELSE Value(creds["user"].fields, creds["user"].origin)

\* self.credentials["vault"]["path"] on a vault object without "path"
get_vault_path(creds) ==
    IF ~creds["vault"].present THEN Default({"path"})
    ELSE IF "path" \notin creds["vault"].fields THEN Raised("KeyError")
    ELSE Value({"path"}, creds["vault"].origin)

\* processor.py line 42 and health_check.py line 90 call get_llm_config,
\* which CredentialManager does not define
get_llm_config(creds) == Raised("AttributeError")

Getters == {"get_granola_token", "get_notion_credentials",
            "get_llm_credentials", "get_user_info", "get_vault_path"}

call(getter, creds) ==
    CASE getter = "get_granola_token" -> get_granola_token(creds)
      [] getter = "get_notion_credentials" -> get_notion_credentials(creds)
      [] getter = "get_llm_credentials" -> get_llm_credentials(creds)
      [] getter = "get_user_info" -> get_user_info(creds)
      [] getter = "get_vault_path" -> get_vault_path(creds)

\* no getter has been called
NoAnswers == [g \in Getters |-> None]

-----------------------------------------------------------------------------
(* scripts/health_check.py: overall status and exit code *)

\* check_all has not computed a status and main has not exited
NoHealth == [status |-> "", exit |-> 0 - 1]

\* HealthChecker.check_all, lines 59-65, on h = [issues, warnings]; the
\* lines are written but no run gets to them
overall_status(h) ==
    IF Len(h.issues) = 0 THEN "healthy"
    ELSE IF Len(h.issues) <= 2 THEN "degraded"
    ELSE "unhealthy"

\* main, lines 344-350
health_exit_code(status) ==
    IF status = "unhealthy" THEN 2
    ELSE IF status = "degraded" THEN 1
    ELSE 0

-----------------------------------------------------------------------------
(* scripts/weekly_validation.py: validate_week *)

\* meeting.get("id") of a meeting without an id: None
NoneId == 0

Meetings == [id : 0..MaxMeetingId, valid_meeting : ValidValues]

\* all lists of meetings of length <= n
RECURSIVE MeetingLists(_)
MeetingLists(n) ==
    IF n = 0 THEN {<<>>}
    ELSE LET shorter == MeetingLists(n - 1)
         IN shorter \cup {Append(l, m) : l \in {x \in shorter : Len(x) = n - 1},
                                         m \in Meetings}

\* validate_week has not returned
NoValidation == [status |-> "", total_granola_meetings |-> 0,
                 captured_in_obsidian |-> 0, missing_meetings |-> <<>>,
                 invalid_meetings_skipped |-> 0,
                 coverage_percentage |-> <<0, 1>>]

\* mutant: a meeting without the field is taken for invalid
meeting_is_valid_strict(meeting) == meeting.valid_meeting = "true"

\* validate_week, line 73: meeting.get("valid_meeting", True)
meeting_is_valid(meeting) == meeting.valid_meeting # "false"

\* WeeklyValidator._meeting_in_obsidian: `granola_id in content` raises
\* TypeError for None, which the loop over the files catches
_meeting_in_obsidian(granola_id, obsidian_ids) ==
    granola_id # NoneId /\ granola_id \in obsidian_ids

\* validate_week, lines 70-86: <<invalid_count, valid_count, missing>> after
\* the loop over the meetings, starting from the triple acc
RECURSIVE check_coverage(_, _, _)
check_coverage(meetings, obsidian_ids, acc) ==
    IF meetings = <<>> THEN acc
    ELSE LET meeting == Head(meetings)
         IN IF ~meeting_is_valid(meeting)
            THEN check_coverage(Tail(meetings), obsidian_ids,
                                <<acc[1] + 1, acc[2], acc[3]>>)
            ELSE IF ~_meeting_in_obsidian(meeting.id, obsidian_ids)
            THEN check_coverage(Tail(meetings), obsidian_ids,
                                <<acc[1], acc[2] + 1, Append(acc[3], meeting.id)>>)
            ELSE check_coverage(Tail(meetings), obsidian_ids,
                                <<acc[1], acc[2] + 1, acc[3]>>)

\* validate_week, lines 95-98: the percentage as the fraction <<numerator,
\* denominator>>; the initial 0.0 is kept when there is no valid meeting
coverage_percentage(captured_count, valid_count) ==
    IF valid_count > 0 THEN <<captured_count * 100, valid_count>> ELSE <<0, 1>>

\* WeeklyValidator.validate_week on a validator just constructed
validate_week(meetings, obsidian_ids) ==
    LET r == check_coverage(meetings, obsidian_ids, <<0, 0, <<>>>>)
        missing == r[3]
        captured_count == r[2] - Len(missing)
    IN [status |-> IF Len(missing) = 0 THEN "complete" ELSE "gaps_detected",
        total_granola_meetings |-> Len(meetings),
        captured_in_obsidian |-> captured_count,
        missing_meetings |-> missing,
        invalid_meetings_skipped |-> r[1],
        coverage_percentage |-> coverage_percentage(captured_count, r[2])]

-----------------------------------------------------------------------------
(* The sync entry point: scripts/granola_sync.py main, running               *)
(* GranolaProcessor.process_new_meetings step by step.                      *)
(* The API answers with a list; the loop reads documents[i] in pass i only, *)
(* so the fetch draws the length of the list and pass i draws element i.    *)

InitFiles ==
    /\ stateFile \in {AbsentFile, EmptyFile}
    /\ lastSync = [exists |-> FALSE, ts |-> 0]
    /\ vault = [n \in Names |-> NoNote]
    /\ statusFile = NoStatus
    /\ now = 0

InitProcess ==
    /\ pc = "idle"
    /\ state = EmptyState
    /\ llm_parser = FALSE
    /\ ndocs = 0
    /\ idx = 0
    /\ doc = NoDoc
    /\ filepath = 0
    /\ results = NewResults
    /\ exitCode = NoExit
    /\ lastEvent = NoEvent
    /\ written = {}
    /\ persistedAtStart = {}

InitMonitor ==
    /\ seen_message_ids = {}
    /\ returned = [i \in MsgIds |-> 0]
    /\ lastCall = [messages |-> <<>>, new_messages |-> <<>>]
    /\ calls = 0
    /\ mpc = "constructed"
    /\ max_iterations = NoCap
    /\ iteration = 0
    /\ tab = FALSE
    /\ stops = 0
    /\ extracts = 0
    /\ dailyFile = NoDailyFile
    /\ monEvent = "none"

\* health_check.py has not been started
InitHealth ==
    /\ hpc = "start"
    /\ issues = <<>>
    /\ warnings = <<>>
    /\ health = NoHealth

\* WeeklyValidator.__init__
InitWeekly ==
    /\ wpc = "constructed"
    /\ granola_fetch = "not_fetched"
    /\ granola_meetings = <<>>
    /\ obsidian_meetings = {}
    /\ validation = NoValidation

\* no CredentialManager has been built
InitCred ==
    /\ cpc = "start"
    /\ configFile = NoFile
    /\ sessionFile = NoSession
    /\ credentials = EmptyBundle
    /\ session_read = FALSE
    /\ got = NoAnswers

\* no text has been extracted
InitConv ==
    /\ xpc = "start"
    /\ node = NoLeaf
    /\ following = <<>>
    /\ extracted = <<>>

\* no message has been looked at
InitDetect ==
    /\ dpc = "start"
    /\ detected = NoDetection
    /\ ppc = "new"
    /\ monitor_llm = FALSE
    /\ offered = [i \in MsgIds |-> 0]
    /\ failedIds = {}
    /\ shown = {}
    /\ passEvent = "none"
    /\ passes = 0

\* neither of the two processes has been started
InitRace ==
    /\ procs = [p \in Procs |-> IdleProc]
    /\ noteWrites = [i \in Ids |-> 0]
    /\ markedBy = [p \in Procs |-> {}]
    /\ lostIds = {}
    /\ overlapped = FALSE

\* process_specific_document has not been called
InitModes == specific = NoSpecific

InitAux ==
    /\ InitHealth
    /\ InitWeekly
    /\ InitCred
    /\ InitConv
    /\ InitDetect
    /\ InitModes
    /\ InitRace

Init ==
    /\ InitFiles
    /\ InitProcess
    /\ marked = {}
    /\ InitMonitor
    /\ InitAux

\* the end of one pass of the for loop: the next document, or the end of the run
Advance ==
    /\ doc' = NoDoc
    /\ filepath' = 0
    /\ IF idx = ndocs
       THEN pc' = "status" /\ idx' = idx
       ELSE pc' = "doc" /\ idx' = idx + 1

\* the objects of a process that has ended are gone
ProcessEnds ==
    /\ state' = EmptyState
    /\ llm_parser' = FALSE
    /\ ndocs' = 0
    /\ idx' = 0
    /\ doc' = NoDoc
    /\ filepath' = 0

\* main, lines 112-127: the status written when an exception reached main
error_status(t) ==
    [timestamp |-> t, fetched |-> 0, processed |-> 0, failed |-> 1,
     errors |-> <<"<e>">>]

\* main, lines 81-83 and 112-127: GranolaProcessor() raises (no API token, vault
\* folder not creatable): the error status is written and the process exits 2
ConstructRaises ==
    /\ pc \in {"idle", "exited", "crashed"}
    /\ now < MaxRuns
    /\ now' = now + 1
    /\ statusFile' = write_sync_status(error_status(now'))
    /\ exitCode' = 2
    /\ pc' = "exited"
    /\ lastEvent' = [op |-> "construct_raised", doc |-> NoDoc]
    /\ written' = {}
    /\ persistedAtStart' = PersistedIds
    /\ results' = NewResults
    /\ UNCHANGED <<stateFile, lastSync, vault, state, llm_parser, ndocs, idx, doc,
                   filepath, marked>>
    /\ UNCHANGED notSync

\* GranolaProcessor.__init__ succeeds (the state file is read once, here) and
\* process_new_meetings builds its results dictionary. Lines 38-57: the LLM
\* parser is built after get_llm_config has answered; the call raises, the
\* except clause logs a warning, and llm_parser stays None.
Construct ==
    /\ pc \in {"idle", "exited", "crashed"}
    /\ now < MaxRuns
    /\ now' = now + 1
    /\ state' = _load_state(stateFile)
    /\ llm_parser' = ~get_llm_config(credentials).raised
    /\ results' = [NewResults EXCEPT !.timestamp = now']
    /\ ndocs' = 0
    /\ idx' = 0
    /\ doc' = NoDoc
    /\ filepath' = 0
    /\ written' = {}
    /\ persistedAtStart' = PersistedIds
    /\ exitCode' = NoExit
    /\ statusFile' = NoStatus
    /\ pc' = "fetch"
    /\ lastEvent' = [op |-> "constructed", doc |-> NoDoc]
    /\ UNCHANGED <<stateFile, lastSync, vault, marked>>
    /\ UNCHANGED notSync

\* GranolaFetcher._update_last_check: the watermark file written at time t
_update_last_check(t) == [exists |-> TRUE, ts |-> t]

\* mutant: the watermark is moved before the result of the fetch is looked at
fetch_new_documents_always(ls, t, ok) == _update_last_check(t)

\* GranolaFetcher.fetch_new_documents: the watermark file it leaves, given
\* whether fetch_documents returned a list (ok) or None
fetch_new_documents(ls, t, ok) ==
    IF ok THEN _update_last_check(t) ELSE ls

\* mutant: a failed fetch is counted as a failed document
fetch_failed_counted(res) ==
    [res EXCEPT !.failed = @ + 1, !.errors = Append(@, "API fetch failed")]

\* process_new_meetings, lines 85-88: the results returned when the fetch failed
fetch_failed(res) == [res EXCEPT !.errors = Append(@, "API fetch failed")]

\* process_new_meetings, lines 83-88: the fetch returned None
FetchFails ==
    /\ pc = "fetch"
    /\ lastSync' = fetch_new_documents(lastSync, now, FALSE)
    /\ results' = fetch_failed(results)
    /\ pc' = "status"
    /\ lastEvent' = [op |-> "fetch_failed", doc |-> NoDoc]
    /\ UNCHANGED <<stateFile, vault, statusFile, now, state, llm_parser, ndocs,
                   idx, doc, filepath, exitCode, written, persistedAtStart, marked>>
    /\ UNCHANGED notSync

\* process_new_meetings, lines 83-95: the fetch returned a list of n documents
Fetch ==
    /\ pc = "fetch"
    /\ lastSync' = fetch_new_documents(lastSync, now, TRUE)
    /\ \E n \in 0..MaxFetch :
         /\ ndocs' = n
         /\ results' = [results EXCEPT !.fetched = n]
         /\ IF n = 0
            THEN pc' = "status" /\ idx' = 0
            ELSE pc' = "doc" /\ idx' = 1
    /\ lastEvent' = [op |-> "fetched", doc |-> NoDoc]
    /\ UNCHANGED <<stateFile, vault, statusFile, now, state, llm_parser, doc,
                   filepath, exitCode, written, persistedAtStart, marked>>
    /\ UNCHANGED notSync

\* mutant: the is_processed check is missing
route_no_dedup(st, d) ==
    IF d.id = UnhashableId THEN "exception"
    ELSE IF ~valid_meeting(d) THEN "skip_invalid"
    ELSE "write"

\* process_new_meetings, lines 104-118: what the loop body does with a document
\* before the writer is called. `doc_id in processed_ids` raises TypeError for
\* an unhashable id, which the per-document except clause catches.
route(st, d) ==
    IF d.id = UnhashableId THEN "exception"
    ELSE IF is_processed(st, doc_id(d)) THEN "skip_processed"
    ELSE IF ~valid_meeting(d) THEN "skip_invalid"
    ELSE "write"

\* mutant: the failure is counted and no message is recorded
count_failed_silent(res, msg) == [res EXCEPT !.failed = @ + 1]

\* results after a failure on a document (lines 137-138 and 142-144)
count_failed(res, msg) ==
    [res EXCEPT !.failed = @ + 1,
                !.errors = Append(@, msg)]

\* results after a skip (lines 108 and 114)
count_skipped(res) == [res EXCEPT !.skipped = @ + 1]

\* results after the writer returned a path (lines 121-122)
count_processed(res, path) ==
    [res EXCEPT !.processed = @ + 1,
                !.notes_created = Append(@, path)]

\* process_new_meetings, lines 98-118 and 136-146: one pass of the loop up to
\* and including the call of the writer, on the document d = documents[idx]
Examine ==
    /\ pc = "doc"
    /\ \E d \in Docs :
         LET r == route(state, d)
         IN \/ /\ r = "exception"
               /\ results' = count_failed(results, "Error processing <id>: <e>")
               /\ lastEvent' = [op |-> "exception", doc |-> d]
               /\ Advance
               /\ UNCHANGED <<vault, written>>
            \/ /\ r = "skip_processed"
               /\ results' = count_skipped(results)
               /\ lastEvent' = [op |-> "skip_processed", doc |-> d]
               /\ Advance
               /\ UNCHANGED <<vault, written>>
            \/ /\ r = "skip_invalid"
               /\ results' = count_skipped(results)
               /\ lastEvent' = [op |-> "skip_invalid", doc |-> d]
               /\ Advance
               /\ UNCHANGED <<vault, written>>
            \/ /\ r = "write"      \* write_meeting_note returned None
               /\ results' = count_failed(results, "Failed to write note for <id>")
               /\ lastEvent' = [op |-> "write_failed", doc |-> d]
               /\ Advance
               /\ UNCHANGED <<vault, written>>
            \/ /\ r = "write"      \* write_meeting_note returned a path
               /\ vault' = write_meeting_note(vault, d)
               /\ doc' = d
               /\ filepath' = d.name
               /\ results' = count_processed(results, d.name)
               /\ written' = written \cup {doc_id(d)}
               /\ lastEvent' = [op |-> "written", doc |-> d]
               /\ pc' = "mark"
               /\ idx' = idx
    /\ UNCHANGED <<stateFile, lastSync, statusFile, now, state, llm_parser, ndocs,
                   exitCode, persistedAtStart, marked>>
    /\ UNCHANGED notSync

\* process_new_meetings, lines 125-129: self.state.mark_processed(doc_id)
Mark ==
    /\ pc = "mark"
    /\ LET r == mark_processed(state, stateFile, doc_id(doc), now)
       IN /\ state' = r[1]
          /\ stateFile' = r[2]
    /\ marked' = marked \cup {doc_id(doc)}
    /\ lastEvent' = [op |-> "marked", doc |-> doc]
    /\ IF llm_parser
       THEN pc' = "enrich" /\ UNCHANGED <<idx, doc, filepath>>
       ELSE Advance
    /\ UNCHANGED <<lastSync, vault, statusFile, now, llm_parser, ndocs, results,
                   exitCode, written, persistedAtStart>>
    /\ UNCHANGED notSync

\* process_new_meetings, lines 133-135: the except clause around the enrichment
\* logs a warning and leaves the results as they are
enrich_raised(res) == res

\* process_new_meetings, lines 129-135: the enrichment of the note just written;
\* it rewrites the file, returns early (no frontmatter match), or raises.
\* It needs llm_parser to be set, which Construct never does: the step is
\* written down as the code has it and is no step of any run.
Enrich ==
    /\ pc = "enrich"
    /\ \/ /\ vault' = _enrich_note_with_llm(vault, filepath)
          /\ lastEvent' = [op |-> "enriched", doc |-> doc]
       \/ /\ vault' = vault
          /\ lastEvent' = [op |-> "enrich_returned", doc |-> doc]
       \/ /\ vault' = vault
          /\ lastEvent' = [op |-> "enrich_raised", doc |-> doc]
    /\ results' = IF lastEvent'.op = "enrich_raised" THEN enrich_raised(results)
                   ELSE results
    /\ Advance
    /\ UNCHANGED <<stateFile, lastSync, statusFile, now, state, llm_parser, ndocs,
                   exitCode, written, persistedAtStart, marked>>
    /\ UNCHANGED notSync

\* mutant: any recorded error makes the exit code 1
exit_code_on_errors(res) == IF Len(res.errors) > 0 THEN 1 ELSE 0

\* main, lines 106-110: the exit code for a returned result
exit_code(res) == IF res.failed > 0 THEN 1 ELSE 0

\* main, lines 86-110: process_new_meetings returned; status file and exit code
Finish ==
    /\ pc = "status"
    /\ statusFile' = write_sync_status(results)
    /\ exitCode' = exit_code(results)
    /\ pc' = "exited"
    /\ lastEvent' = [op |-> "finished", doc |-> NoDoc]
    /\ ProcessEnds
    /\ UNCHANGED <<stateFile, lastSync, vault, now, results, written,
                   persistedAtStart, marked>>
    /\ UNCHANGED notSync

\* the event recorded for a process killed at position p
crashed_at(p) ==
    CASE p = "fetch" -> "crashed_fetch"
      [] p = "doc" -> "crashed_doc"
      [] p = "mark" -> "crashed_mark"
      [] p = "enrich" -> "crashed_enrich"
      [] p = "status" -> "crashed_status"

\* the process is killed (power loss, SIGKILL) at any point of a run: what is
\* on disk stays, what is in memory is lost with the process
Crash ==
    /\ pc \in {"fetch", "doc", "mark", "enrich", "status"}
    /\ pc' = "crashed"
    /\ lastEvent' = [op |-> crashed_at(pc), doc |-> NoDoc]
    /\ ProcessEnds
    /\ UNCHANGED <<stateFile, lastSync, vault, statusFile, now, results, exitCode,
                   written, persistedAtStart, marked>>
    /\ UNCHANGED notSync

\* the process is killed inside _save_state, lines 85-86: open(state_file, "w")
\* has truncated the file and json.dump has not completed
CrashInSave ==
    /\ pc = "mark"
    /\ doc_id(doc) \notin state.processed_ids
    /\ pc' = "crashed"
    /\ stateFile' = EmptyFile
    /\ lastEvent' = [op |-> "crashed_in_save", doc |-> NoDoc]
    /\ ProcessEnds
    /\ UNCHANGED <<lastSync, vault, statusFile, now, results, exitCode, written,
                   persistedAtStart, marked>>
    /\ UNCHANGED notSync

Next ==
    \/ ConstructRaises
    \/ Construct
    \/ FetchFails
    \/ Fetch
    \/ Examine
    \/ Mark
    \/ Finish
    \/ Crash
    \/ CrashInSave

Spec == Init /\ [][Next]_vars

TypeOK ==
    /\ stateFile.kind \in {"absent", "empty", "json"}
    /\ pc \in {"idle", "fetch", "doc", "mark", "enrich", "status", "exited", "crashed"}
    /\ idx \in 0..MaxFetch
    /\ now \in Nat
    /\ exitCode \in {NoExit, 0, 1, 2}
    /\ calls \in 0..MaxCalls
    /\ seen_message_ids \subseteq MsgIds

-----------------------------------------------------------------------------
(* Properties of the sync run *)

\* a step of Examine: one pass of the loop has handled lastEvent'.doc
ExamineStep == pc = "doc" /\ pc' # "crashed"

\* the loop goes on with the next document, or ends after the last one
LoopContinues ==
    IF idx < ndocs
    THEN pc' = "doc" /\ idx' = idx + 1
    ELSE pc' = "status"

\* C1: across serialized runs on one state file, a document whose id is already
\* in processed_ids (in the tracker of the running process, or in the state
\* file) is not written again: the pass that examines it calls neither
\* write_meeting_note nor mark_processed and increments skipped by exactly one.
C1_ProcessedIsSkipped ==
    [][ (/\ ExamineStep
         /\ \/ doc_id(lastEvent'.doc) \in state.processed_ids
            \/ doc_id(lastEvent'.doc) \in PersistedIds)
        => /\ lastEvent'.op = "skip_processed"
           /\ results' = [results EXCEPT !.skipped = @ + 1]
           /\ pc' \in {"doc", "status"}
           /\ UNCHANGED <<vault, state, stateFile, written, marked>> ]_vars

\* a second run skips a document whose id an earlier run persisted
C1_Witness ==
    /\ now = 2
    /\ lastEvent.op = "skip_processed"
    /\ doc_id(lastEvent.doc) \in persistedAtStart
    /\ results.skipped = 1

C3_ValidMeetingFilter ==
    [][ /\ (ExamineStep /\ lastEvent'.doc.valid_meeting = "false")
            => /\ lastEvent'.op \in {"skip_invalid", "skip_processed", "exception"}
               /\ pc' \in {"doc", "status"}
               /\ UNCHANGED <<vault, state, stateFile, written, marked>>
        /\ (/\ ExamineStep
            /\ lastEvent'.doc.valid_meeting \in {"true", "absent"}
            /\ lastEvent'.doc.id # UnhashableId
            /\ doc_id(lastEvent'.doc) \notin state.processed_ids)
            => lastEvent'.op \in {"written", "write_failed"}
        /\ (pc = "mark" /\ pc' # "crashed")
            => /\ doc.valid_meeting # "false"
               /\ marked' = marked \cup {doc_id(doc)} ]_vars

\* an invalid meeting was skipped and a document without the field was written
C3_Witness ==
    /\ lastEvent.op = "written"
    /\ lastEvent.doc.valid_meeting = "absent"
    /\ results.skipped = 1
    /\ results.processed = 1
    /\ state.processed_ids = {}

C5_FetchFailureAborts ==
    [][ (pc = "fetch" /\ lastEvent'.op = "fetch_failed")
        => /\ results'.fetched = 0
           /\ results'.processed = 0
           /\ results'.failed = 0
           /\ results'.skipped = 0
           /\ results'.notes_created = <<>>
           /\ results'.errors = <<"API fetch failed">>
           /\ pc' = "status"
           /\ UNCHANGED <<vault, state, stateFile, written, marked>> ]_vars

\* a failed fetch in a run that started from a non-empty state file
C5_Witness ==
    /\ pc = "status"
    /\ lastEvent.op = "fetch_failed"
    /\ persistedAtStart # {}

C7_EnrichmentFailureIgnored ==
    [][ (pc = "enrich" /\ lastEvent'.op = "enrich_raised")
        => /\ results' = results
           /\ results.processed >= 1
           /\ filepath \in Range(results.notes_created)
           /\ doc_id(doc) \in state'.processed_ids
           /\ doc_id(doc) \in _load_state(stateFile').processed_ids
           /\ LoopContinues ]_vars

-----------------------------------------------------------------------------
(* A SyncStateManager used on its own: trackers are built on the state file *)
(* one after the other and ids are marked, one by one or in batches          *)

GranolaIds == 1..MaxGranolaId

\* all lists of ids of length <= n; a list may repeat an id
RECURSIVE IdLists(_)
IdLists(n) ==
    IF n = 0 THEN {<<>>}
    ELSE LET shorter == IdLists(n - 1)
         IN shorter \cup {Append(l, i) : l \in {x \in shorter : Len(x) = n - 1},
                                         i \in GranolaIds}

InitTracker ==
    /\ InitFiles
    /\ InitProcess
    /\ marked = {}
    /\ InitMonitor
    /\ InitAux

trackerFrame == <<lastSync, vault, statusFile, pc, llm_parser, ndocs, idx, doc,
                  filepath, results, exitCode, written, persistedAtStart>>

\* SyncStateManager.__init__: a tracker is built on the file and replaces the
\* one in use
TrackerNew ==
    /\ state' = _load_state(stateFile)
    /\ lastEvent' = [op |-> "tracker_new", doc |-> NoDoc]
    /\ UNCHANGED <<stateFile, now, marked>>
    /\ UNCHANGED trackerFrame
    /\ UNCHANGED notSync

\* SyncStateManager.mark_processed(granola_id)
TrackerMark ==
    /\ now < MaxSaves
    /\ \E id \in GranolaIds :
         LET r == mark_processed(state, stateFile, id, now)
         IN /\ state' = r[1]
            /\ stateFile' = r[2]
            /\ marked' = marked \cup {id}
    /\ now' = now + 1
    /\ lastEvent' = [op |-> "tracker_mark", doc |-> NoDoc]
    /\ UNCHANGED trackerFrame
    /\ UNCHANGED notSync

\* SyncStateManager.mark_batch_processed(granola_ids)
TrackerMarkBatch ==
    /\ now < MaxSaves
    /\ \E ids \in IdLists(MaxBatch) :
         LET r == mark_batch_processed(state, stateFile, ids, now)
         IN /\ state' = r[1]
            /\ stateFile' = r[2]
            /\ marked' = marked \cup Range(ids)
    /\ now' = now + 1
    /\ lastEvent' = [op |-> "tracker_batch", doc |-> NoDoc]
    /\ UNCHANGED trackerFrame
    /\ UNCHANGED notSync

\* SyncStateManager.prune_old_ids()
TrackerPrune ==
    /\ now < MaxSaves
    /\ LET r == prune_old_ids(state, now)
       IN /\ state' = r[1]
          /\ stateFile' = r[2]
    /\ now' = now + 1
    /\ lastEvent' = [op |-> "tracker_prune", doc |-> NoDoc]
    /\ UNCHANGED marked
    /\ UNCHANGED trackerFrame
    /\ UNCHANGED notSync

NextTracker ==
    \/ TrackerNew
    \/ TrackerMark
    \/ TrackerMarkBatch
    \/ TrackerPrune

SpecTracker == InitTracker /\ [][NextTracker]_vars

C27_CountIsDistinctIds ==
    /\ [](state.total_processed = Cardinality(state.processed_ids))
    /\ [][ /\ lastEvent'.op \in {"tracker_mark", "tracker_batch", "tracker_prune"}
              => state.processed_ids \subseteq state'.processed_ids
           /\ (lastEvent'.op \in {"tracker_mark", "tracker_batch"}
               /\ state'.processed_ids = state.processed_ids)
              => (state' = state /\ stateFile' = stateFile) ]_vars

-----------------------------------------------------------------------------
(* The Slack monitor's filter, called once per polling iteration *)

InitFilter ==
    /\ InitFiles
    /\ InitProcess
    /\ marked = {}
    /\ InitMonitor
    /\ InitAux

\* SlackCDPMonitor.filter_new_messages(messages), on what extract_messages
\* found in the view
FilterNewMessages ==
    /\ calls < MaxCalls
    /\ \E messages \in MessageLists(MaxMessages) :
         LET r == filter_new_messages(seen_message_ids, messages)
         IN /\ seen_message_ids' = r[2]
            /\ lastCall' = [messages |-> messages, new_messages |-> r[1]]
            /\ returned' = [i \in MsgIds |-> returned[i] + Occurrences(r[1], i)]
    /\ calls' = calls + 1
    /\ UNCHANGED notFilter

NextFilter == FilterNewMessages

SpecFilter == InitFilter /\ [][NextFilter]_vars

\* C10: over any sequence of calls in one process, filter_new_messages returns
\* no message whose id is already in seen_message_ids, adds the id of every
\* message it returns to seen_message_ids, never removes an id from it, and so
\* returns at most one message per id.
C10_NewAtMostOnce ==
    [][ /\ seen_message_ids \subseteq seen_message_ids'
        /\ calls' = calls + 1
            => /\ \A k \in 1..Len(lastCall'.new_messages) :
                    /\ lastCall'.new_messages[k].id \notin seen_message_ids
                    /\ lastCall'.new_messages[k].id \in seen_message_ids'
               /\ \A k \in 1..Len(lastCall'.messages) :
                    lastCall'.messages[k].id \in seen_message_ids
                        => lastCall'.messages[k].id
                              \notin {m.id : m \in Range(lastCall'.new_messages)}
        /\ \A i \in MsgIds : returned'[i] <= 1 ]_vars

\* a later call is given a message whose id was returned before, and drops it
C10_Witness ==
    /\ calls = 2
    /\ lastCall.new_messages = <<>>
    /\ Len(lastCall.messages) = 2
    /\ \A k \in 1..Len(lastCall.messages) : lastCall.messages[k].id # EmptyMsgId
    /\ \E i \in MsgIds : returned[i] = 1

-----------------------------------------------------------------------------
(* SlackCDPMonitor.monitor_loop *)

Caps == {NoCap} \cup (0..MaxCap)

\* mutant: disconnect does not stop the tab
disconnect_noop(t, n) == n

\* SlackCDPMonitor.disconnect: the number of tab.stop() calls after it
disconnect(t, n) == IF t THEN n + 1 ELSE n

\* monitor_loop, line 497: `max_iterations and iteration > max_iterations`
cap_reached(cap, it) == cap # NoCap /\ cap # 0 /\ it > cap

\* mutant: the handler of a failed iteration takes the pass back
after_exception_retry(it) == it - 1

\* monitor_loop, lines 535-539: the counter after an iteration raised
after_exception(it) == it

\* monitor_loop, lines 486-488: connect returned False (no tab, connection
\* refused, or tab.start() raised after self.tab was set)
ConnectFails ==
    /\ mpc = "constructed"
    /\ \E cap \in Caps : max_iterations' = cap
    /\ tab' \in BOOLEAN
    /\ mpc' = "connect_failed"
    /\ monEvent' = "connect_failed"
    /\ UNCHANGED <<iteration, stops, extracts, dailyFile>>
    /\ UNCHANGED <<notMonitor, monVars>>

\* monitor_loop, lines 486-493: connect returned True
Connect ==
    /\ mpc = "constructed"
    /\ \E cap \in Caps : max_iterations' = cap
    /\ tab' = TRUE
    /\ iteration' = 0
    /\ mpc' = "loop_head"
    /\ monEvent' = "connected"
    /\ UNCHANGED <<stops, extracts, dailyFile>>
    /\ UNCHANGED <<notMonitor, monVars>>

\* monitor_loop, lines 494-499 and 544-545: the head of the while loop; on
\* break the finally clause disconnects
LoopHead ==
    /\ mpc = "loop_head"
    /\ iteration < MaxIterations
    /\ iteration' = iteration + 1
    /\ IF cap_reached(max_iterations, iteration + 1)
       THEN /\ stops' = disconnect(tab, stops)
            /\ mpc' = "returned"
            /\ monEvent' = "max_iterations_reached"
       ELSE /\ mpc' = "iteration"
            /\ monEvent' = "iteration_started"
            /\ UNCHANGED stops
    /\ UNCHANGED <<max_iterations, tab, extracts, dailyFile>>
    /\ UNCHANGED <<notMonitor, monVars>>

\* monitor_loop, lines 501-539: the body of one iteration up to its sleep
Iteration ==
    /\ mpc = "iteration"
    /\ extracts' = extracts + 1
    /\ \E all_messages \in MessageLists(MaxMessages) :
         LET r == filter_new_messages(seen_message_ids, all_messages)
             new_messages == r[1]
         IN /\ seen_message_ids' = r[2]
            /\ returned' = [i \in MsgIds |-> returned[i] + Occurrences(new_messages, i)]
            /\ \/ /\ new_messages = <<>>
                  /\ monEvent' = "no_new_messages"
                  /\ mpc' = "sleep"
                  /\ iteration' = iteration
                  /\ UNCHANGED dailyFile
               \/ /\ new_messages # <<>>      \* no indicator in any message
                  /\ monEvent' = "no_potential_tasks"
                  /\ mpc' = "sleep"
                  /\ iteration' = iteration
                  /\ UNCHANGED dailyFile
               \/ /\ new_messages # <<>>      \* msg["content"] is no string
                  /\ monEvent' = "detect_raised"
                  /\ mpc' = "error_sleep"
                  /\ iteration' = after_exception(iteration)
                  /\ UNCHANGED dailyFile
               \/ /\ new_messages # <<>>
                  /\ \E tasks \in TaskLists(MaxTasks) :
                       LET w == write_tasks_to_obsidian(dailyFile, tasks)
                       IN /\ dailyFile' = w.file
                          /\ IF tasks = <<>>
                             THEN /\ monEvent' = "no_tasks_extracted"
                                  /\ mpc' = "sleep"
                                  /\ iteration' = iteration
                             ELSE IF w.raised
                             THEN /\ monEvent' = "write_raised"
                                  /\ mpc' = "error_sleep"
                                  /\ iteration' = after_exception(iteration)
                             ELSE /\ monEvent' = "tasks_written"
                                  /\ mpc' = "sleep"
                                  /\ iteration' = iteration
    /\ UNCHANGED <<max_iterations, tab, stops>>
    /\ UNCHANGED <<lastCall, calls>>
    /\ UNCHANGED notMonitor

\* monitor_loop, line 533: time.sleep(self.check_interval) returned
Sleep ==
    /\ mpc = "sleep"
    /\ mpc' = "loop_head"
    /\ monEvent' = "slept"
    /\ UNCHANGED <<max_iterations, iteration, tab, stops, extracts, dailyFile>>
    /\ UNCHANGED <<notMonitor, monVars>>

\* monitor_loop, line 539: the sleep of the exception handler returned
ErrorSleep ==
    /\ mpc = "error_sleep"
    /\ mpc' = "loop_head"
    /\ monEvent' = "slept_after_error"
    /\ UNCHANGED <<max_iterations, iteration, tab, stops, extracts, dailyFile>>
    /\ UNCHANGED <<notMonitor, monVars>>

\* monitor_loop, lines 535-545: KeyboardInterrupt raised in extract_messages,
\* in the sleep of the iteration or in the sleep of the exception handler; the
\* outer handler logs it and the finally clause disconnects
Interrupt ==
    /\ mpc \in {"iteration", "sleep", "error_sleep"}
    /\ monEvent' = IF mpc = "iteration" THEN "interrupted_extract"
                   ELSE IF mpc = "sleep" THEN "interrupted_sleep"
                   ELSE "interrupted_error_sleep"
    /\ extracts' = IF mpc = "iteration" THEN extracts + 1 ELSE extracts
    /\ stops' = disconnect(tab, stops)
    /\ mpc' = "returned"
    /\ UNCHANGED <<max_iterations, iteration, tab, dailyFile>>
    /\ UNCHANGED <<notMonitor, monVars>>

NextMonitor ==
    \/ ConnectFails
    \/ Connect
    \/ LoopHead
    \/ Iteration
    \/ Sleep
    \/ ErrorSleep
    \/ Interrupt

SpecMonitor == Init /\ [][NextMonitor]_vars

\* C11: once connect has succeeded, monitor_loop returns only after disconnect
\* has stopped the tab exactly once, whether it leaves by the iteration cap or
\* by a keyboard interrupt during extraction, during the sleep of an iteration
\* or during the sleep that follows a failed iteration, and the tab is not
\* stopped while the loop runs; when connect fails no iteration runs.
C11_DisconnectExactlyOnce ==
    /\ mpc = "returned" => stops = 1
    /\ mpc \in {"loop_head", "iteration", "sleep", "error_sleep"}
         => tab /\ stops = 0
    /\ mpc = "connect_failed" => iteration = 0 /\ extracts = 0 /\ stops = 0

\* the loop was left by an interrupt in the sleep that follows a failed iteration
C11_Witness ==
    /\ mpc = "returned"
    /\ monEvent = "interrupted_error_sleep"
    /\ extracts = 1
    /\ stops = 1

\* C12: an exception raised inside an iteration does not end monitor_loop: the
\* tab is not stopped, the handler's sleep follows, and after it the loop is
\* back at its head; the failed iteration has used up one pass of the counter
\* (iteration equals the number of extractions begun), so the passes begun
\* never exceed a cap of one or more.
C12_FailedIterationContinues ==
    /\ [](mpc \in {"sleep", "error_sleep", "loop_head"} => iteration = extracts)
    /\ []((max_iterations # NoCap /\ max_iterations > 0)
            => extracts <= max_iterations)
    /\ [][ /\ monEvent' \in {"detect_raised", "write_raised"}
               => /\ mpc = "iteration"
                  /\ mpc' = "error_sleep"
                  /\ stops' = stops
           /\ (mpc = "error_sleep" /\ monEvent' # "interrupted_error_sleep")
               => /\ mpc' = "loop_head"
                  /\ monEvent' = "slept_after_error"
                  /\ stops' = stops ]_vars

\* with a cap of 1 the only iteration raised in its write (which left the new
\* file empty), and the loop then ended at the cap
C12_Witness ==
    /\ monEvent = "max_iterations_reached"
    /\ max_iterations = 1
    /\ iteration = 2
    /\ extracts = 1
    /\ dailyFile = [exists |-> TRUE, content |-> <<>>]

\* C13: for every iteration cap N >= 0 given to monitor_loop, at most N
\* extract iterations are performed.
C13_AtMostCapIterations ==
    max_iterations # NoCap => extracts <= max_iterations

\* C14: the daily capture file only grows: whenever a step changes the file,
\* its content before the step is a prefix of its content after it.
C14_DailyFileOnlyGrows ==
    [][ dailyFile' # dailyFile
          => IsPrefix(dailyFile.content, dailyFile'.content) ]_vars

-----------------------------------------------------------------------------
(* src/credential_manager.py: a manager is built, then asked *)

\* CredentialManager.__init__ on the files it finds
LoadCredentials ==
    /\ cpc = "start"
    /\ \E config \in ConfigFiles, session \in SessionFiles :
         /\ configFile' = config
         /\ sessionFile' = session
         /\ credentials' = _load_credentials(config, session).bundle
         /\ session_read' = _load_credentials(config, session).session_read
    /\ cpc' = "loaded"
    /\ UNCHANGED <<got, notCred>>

\* each getter called once on the loaded bundle
CallGetters ==
    /\ cpc = "loaded"
    /\ got' = [g \in Getters |-> call(g, credentials)]
    /\ cpc' = "asked"
    /\ UNCHANGED <<configFile, sessionFile, credentials, session_read, notCred>>

NextCred == LoadCredentials \/ CallGetters

SpecCred == Init /\ [][NextCred]_vars

C18_FilesAreMerged ==
    (cpc = "asked" /\ configFile.kind = "json" /\ sessionFile.kind = "json") =>
        /\ credentials = _load_credentials_merged(configFile, sessionFile).bundle
        /\ (~configFile.bundle["granola"].present /\ sessionFile.access_token) =>
             got["get_granola_token"] = Value({"access_token"}, "session")
        /\ configFile.bundle["llm"].present =>
             credentials["llm"] = configFile.bundle["llm"]
        /\ configFile.bundle["user"].present =>
             got["get_user_info"] =
                 Value(configFile.bundle["user"].fields, "config")

\* C19: whatever bundle was loaded, no getter raises; a missing section or
\* field gives None or the default.
C19_GettersNeverRaise ==
    cpc = "asked" => \A g \in Getters : ~got[g].raised

-----------------------------------------------------------------------------
(* scripts/health_check.py: main builds a HealthChecker and calls check_all *)

\* HealthChecker.__init__, lines 34-35: a CredentialManager is built (the
\* bundle is the one LoadCredentials loaded) and asked for the vault path.
\* main catches nothing: a KeyError ends the process with a traceback and
\* exit code 1.
HealthInit ==
    /\ hpc = "start"
    /\ cpc = "loaded"
    /\ IF get_vault_path(credentials).raised
       THEN /\ hpc' = "exited"
            /\ health' = [status |-> "", exit |-> 1]
       ELSE /\ hpc' = "constructed"
            /\ UNCHANGED health
    /\ UNCHANGED <<issues, warnings>>
    /\ UNCHANGED notHealth

\* check_all, line 52: check_credentials is the first check. It records an
\* issue when there is no Granola token and then calls get_llm_config (line
\* 90), which raises AttributeError; neither check_credentials nor check_all
\* nor main catches it, so the other checks and lines 59-76 never run and
\* the process ends with a traceback and exit code 1.
CheckCredentials ==
    /\ hpc = "constructed"
    /\ issues' = IF get_granola_token(credentials) = None
                 THEN Append(issues, "no_granola_token")
                 ELSE issues
    /\ get_llm_config(credentials).raised
    /\ hpc' = "exited"
    /\ health' = [status |-> "", exit |-> 1]
    /\ UNCHANGED warnings
    /\ UNCHANGED notHealth

NextHealth ==
    \/ LoadCredentials
    \/ HealthInit
    \/ CheckCredentials

SpecHealth == Init /\ [][NextHealth]_vars

\* C15: the overall health status depends only on the number of recorded
\* issues, whatever the number of warnings: healthy and exit code 0 with no
\* issue, degraded and exit code 1 with one or two, unhealthy and exit code 2
\* with three or more.
C15_StatusFollowsIssues ==
    hpc = "exited" =>
        /\ Len(issues) = 0 => health = [status |-> "healthy", exit |-> 0]
        /\ Len(issues) \in {1, 2} => health = [status |-> "degraded", exit |-> 1]
        /\ Len(issues) >= 3 => health = [status |-> "unhealthy", exit |-> 2]

-----------------------------------------------------------------------------
(* scripts/weekly_validation.py: one validation per process *)

\* main, lines 309-310: a validator is built and validate_week is called once,
\* on the meetings of the window and the notes of the window
ValidateWeek ==
    /\ wpc = "constructed"
    /\ \E meetings \in MeetingLists(MaxMeetings),
          obsidian_ids \in SUBSET (1..MaxMeetingId) :
         /\ granola_meetings' = meetings
         /\ obsidian_meetings' = obsidian_ids
         /\ validation' = validate_week(meetings, obsidian_ids)
    /\ granola_fetch' = "list"
    /\ wpc' = "validated"
    /\ UNCHANGED notWeekly

\* _fetch_granola_meetings, lines 141-143 and 164-166: what it returns when
\* fetch_documents returned None ("none") or when GranolaFetcher() or the
\* fetch raised ("raised")
_fetch_granola_meetings_failed(outcome) == <<>>

\* main, lines 339-344: the exit code for the status of the result
validation_exit_code(status) ==
    IF status = "error" THEN 2
    ELSE IF status = "gaps_detected" THEN 1
    ELSE 0

\* main, lines 309-310: validate_week is called and the meeting list cannot be
\* obtained
ValidateWeekFetchFails ==
    /\ wpc = "constructed"
    /\ \E outcome \in {"none", "raised"}, obsidian_ids \in SUBSET (1..MaxMeetingId) :
         /\ granola_fetch' = outcome
         /\ granola_meetings' = _fetch_granola_meetings_failed(outcome)
         /\ obsidian_meetings' = obsidian_ids
         /\ validation' = validate_week(granola_meetings', obsidian_ids)
    /\ wpc' = "validated"
    /\ UNCHANGED notWeekly

NextWeekly == ValidateWeek \/ ValidateWeekFetchFails

SpecWeekly == Init /\ [][NextWeekly]_vars

\* positions of the meetings of the list that satisfy P
Positions(meetings, P(_)) == {k \in 1..Len(meetings) : P(meetings[k])}

C26_FetchFailureIsError ==
    (wpc = "validated" /\ granola_fetch \in {"none", "raised"}) =>
        /\ validation.status = "error"
        /\ validation_exit_code(validation.status) = 2

-----------------------------------------------------------------------------
(* src/format_converter.py: one text extraction *)

\* _extract_text called on a text node with some marks, followed by nothing, a
\* hardBreak or an unknown node
ExtractText ==
    /\ xpc = "start"
    /\ \E text \in {<<>>, <<"t">>}, marks \in MarkLists(MaxMarks),
          tail \in Tails, preserve_newlines \in BOOLEAN :
         /\ node' = [text |-> text, marks |-> marks]
         /\ following' = tail
         /\ extracted' = _extract_text(node', tail, preserve_newlines)
    /\ xpc' = "extracted"
    /\ UNCHANGED notConv

NextConv == ExtractText

SpecConv == Init /\ [][NextConv]_vars

\* the openers of the marks, the last mark's first
RECURSIVE Openers(_)
Openers(marks) ==
    IF marks = <<>> THEN <<>>
    ELSE Openers(Tail(marks)) \o Open(Head(marks))

\* the closers of the marks, the first mark's first
RECURSIVE Closers(_)
Closers(marks) ==
    IF marks = <<>> THEN <<>>
    ELSE Close(Head(marks)) \o Closers(Tail(marks))

\* the extracted text without what the entry after the leaf added
MarkedText ==
    IF following = <<"hardBreak">> THEN SubSeq(extracted, 1, Len(extracted) - 1)
    ELSE extracted

\* C20, form that holds of the code: the marks wrap the text in the order of
\* the marks array, the first entry innermost and the last outermost, every
\* entry of a known type wrapping once and entries of other types not at all.
C20_MarksWrapInArrayOrder ==
    xpc = "extracted" =>
        MarkedText = Openers(node.marks) \o node.text \o Closers(node.marks)

\* a link listed before bold: bold is outermost
C20_Witness ==
    /\ xpc = "extracted"
    /\ node.text = <<"t">>
    /\ node.marks = <<[type |-> "link", href |-> <<"h">>],
                      [type |-> "bold", href |-> <<>>]>>
    /\ extracted = <<"*", "*", "[", "t", "]", "(", "h", ")", "*", "*">>

\* C20, exact form: whatever the order of the marks array, the text is wrapped
\* in the fixed order bold, italic, code, strike, link, bold innermost and
\* link outermost.
C20_MarksWrapInFixedOrder ==
    xpc = "extracted" =>
        MarkedText = apply_marks_fixed_order(node.text, node.marks)

-----------------------------------------------------------------------------
(* SlackCDPMonitor.detect_task_creating_messages called on its own *)

\* one call, by a monitor with or without an LLM client
Detect ==
    /\ dpc = "start"
    /\ \E llm \in BOOLEAN, messages \in SlackMessageLists(MaxDetect) :
         detected' = [llm |-> llm, messages |-> messages,
                      out |-> detect_task_creating_messages(llm, messages)]
    /\ dpc' = "detected"
    /\ UNCHANGED <<ppc, monitor_llm, offered, failedIds, shown, passEvent, passes>>
    /\ UNCHANGED notDetect

NextDetect == Detect

SpecDetect == Init /\ [][NextDetect]_vars

\* the lowercased content of the message holds one of the twelve indicators
Likely(msg) ==
    \E j \in 1..Len(task_indicators) :
        contains(lower(msg.content), task_indicators[j])

\* the call flagged every message of its input, true exactly on those whose
\* lowercased content holds an indicator, and returned the ones flagged true
Classified ==
    /\ Len(detected.out.messages) = Len(detected.messages)
    /\ \A k \in 1..Len(detected.messages) :
         /\ "likely_task" \in DOMAIN detected.out.messages[k]
         /\ detected.out.messages[k].id = detected.messages[k].id
         /\ detected.out.messages[k].content = detected.messages[k].content
         /\ detected.out.messages[k].likely_task = Likely(detected.messages[k])
    /\ detected.out.task_messages =
           SelectSeq(detected.out.messages, LAMBDA m : m.likely_task)

\* C24, form that holds of the code: a monitor that has an LLM client returns
\* exactly the input messages whose lowercased content holds one of the twelve
\* indicators and sets likely_task true on them and false on the others; a
\* monitor without an LLM client returns the empty list and sets no flag.
C24_DetectWithClient ==
    dpc = "detected" =>
        IF detected.llm
        THEN Classified
        ELSE /\ detected.out.task_messages = <<>>
             /\ detected.out.messages = detected.messages

\* "Help me" is flagged through its lowercased form, "ok" is flagged false
C24_Witness ==
    /\ dpc = "detected"
    /\ detected.llm
    /\ Len(detected.messages) = 2
    /\ detected.messages[1].content = <<"H", "e", "l", "p", " ", "m", "e">>
    /\ detected.messages[2].content = <<"o", "k">>
    /\ Len(detected.out.task_messages) = 1
    /\ detected.out.task_messages[1].content = detected.messages[1].content
    /\ ~detected.out.messages[2].likely_task

\* C24, exact form: whatever the configuration of the monitor, the call
\* returns exactly the input messages whose lowercased content holds one of
\* the twelve indicators and sets likely_task true on them and false on the
\* others.
C24_DetectAnyConfiguration ==
    dpc = "detected" => Classified

-----------------------------------------------------------------------------
(* SlackCDPMonitor: the passes of monitor_loop, message by message *)

\* what the LLM call of extract_tasks_from_messages came to: an exception (no
\* answer, or an answer json.loads rejects) or the parsed task list
LLMAnswers ==
    {[raised |-> TRUE, tasks |-> <<>>]}
        \cup {[raised |-> FALSE, tasks |-> t] : t \in TaskLists(MaxTasks)}

\* SlackCDPMonitor.extract_tasks_from_messages
extract_tasks_from_messages(llm, messages, answer) ==
    IF ~llm \/ messages = <<>> THEN <<>>
    ELSE IF answer.raised THEN <<>>
    ELSE answer.tasks

\* the ids of the messages of a list
ids_of(messages) == {messages[k].id : k \in 1..Len(messages)}

\* mutant: a pass that wrote no task forgets the ids it had sent to the LLM
after_failed_pass_rollback(seen, sent) == seen \ sent

\* monitor_loop, lines 519-523 and 538-542: seen_message_ids after a pass whose
\* extraction gave no task or whose write raised
after_failed_pass(seen, sent) == seen

\* SlackCDPMonitor.__init__, lines 62-92: the LLM client is built or not
ConstructMonitor ==
    /\ ppc = "new"
    /\ monitor_llm' \in BOOLEAN
    /\ ppc' = "running"
    /\ UNCHANGED <<dpc, detected, offered, failedIds, shown, passEvent, passes>>
    /\ UNCHANGED notDetect

\* monitor_loop, lines 506-527 and 538-540: one pass over the current view
MonitorPass ==
    /\ ppc = "running"
    /\ passes < MaxPasses
    /\ passes' = passes + 1
    /\ \E all_messages \in SlackMessageLists(MaxView) :
       \E r \in {filter_new_messages(seen_message_ids, all_messages)} :
       \E potential_task_messages \in
              {detect_task_creating_messages(monitor_llm, r[1]).task_messages} :
       \E answer \in IF potential_task_messages = <<>>
                     THEN {[raised |-> FALSE, tasks |-> <<>>]}
                     ELSE LLMAnswers :
         LET new_messages == r[1]
             tasks == extract_tasks_from_messages(monitor_llm,
                                                  potential_task_messages, answer)
             w == write_tasks_to_obsidian(dailyFile, tasks)
             sent == IF monitor_llm THEN ids_of(potential_task_messages) ELSE {}
             event == IF new_messages = <<>> THEN "no_new_messages"
                      ELSE IF potential_task_messages = <<>> THEN "no_potential_tasks"
                      ELSE IF tasks = <<>> THEN "no_tasks_extracted"
                      ELSE IF w.raised THEN "write_raised"
                      ELSE "tasks_written"
             failed == event \in {"no_tasks_extracted", "write_raised"}
         IN /\ seen_message_ids' = IF failed THEN after_failed_pass(r[2], sent)
                                   ELSE r[2]
            /\ returned' = [i \in MsgIds |->
                               returned[i] + Occurrences(new_messages, i)]
            /\ shown' = ids_of(all_messages)
            /\ offered' = [i \in MsgIds |->
                              offered[i] + (IF i \in sent THEN 1 ELSE 0)]
            /\ failedIds' = IF failed THEN failedIds \cup sent ELSE failedIds
            /\ dailyFile' = w.file
            /\ passEvent' = event
    /\ UNCHANGED <<dpc, detected, ppc, monitor_llm>>
    /\ UNCHANGED <<lastCall, calls>>
    /\ UNCHANGED <<mpc, max_iterations, iteration, tab, stops, extracts, monEvent>>
    /\ UNCHANGED <<syncVars, healthVars, weeklyVars, credVars, convVars, modeVars,
                   raceVars>>

NextPass == ConstructMonitor \/ MonitorPass

SpecPass == Init /\ [][NextPass]_vars

\* C30: a message id is recorded in seen_message_ids in the pass that first
\* sends it to task extraction and is never taken out again: an id sent in a
\* pass whose LLM call gave no task or whose write raised is not sent in any
\* later pass, so each id reaches the LLM at most once.
C30_OfferedAtMostOnce ==
    /\ [](\A i \in MsgIds : offered[i] <= 1)
    /\ [](failedIds \subseteq seen_message_ids)
    /\ [][ /\ seen_message_ids \subseteq seen_message_ids'
           /\ \A i \in MsgIds :
                offered'[i] > offered[i]
                    => i \notin seen_message_ids /\ i \in seen_message_ids'
           /\ \A i \in failedIds : offered'[i] = offered[i] ]_vars

\* an id sent to the LLM in a pass that wrote no task is in the view of a
\* later pass, which finds nothing new
C30_Witness ==
    /\ passes >= 2
    /\ passEvent = "no_new_messages"
    /\ \E i \in failedIds \cap shown : offered[i] = 1
    /\ dailyFile = [exists |-> TRUE, content |-> <<>>]

-----------------------------------------------------------------------------
(* The sync run of a user whose credentials.json configures the LLM *)

\* credentials.json with an API token, a vault path and an llm section that
\* holds an api_key
LLMConfigFiles ==
    {c \in ConfigFiles :
        /\ c.kind = "json"
        /\ c.bundle["granola"] = Section({"access_token"}, "config")
        /\ c.bundle["vault"] = Section({"path"}, "config")
        /\ c.bundle["llm"].present
        /\ "api_key" \in c.bundle["llm"].fields
        /\ ~c.bundle["notion"].present
        /\ ~c.bundle["user"].present}

\* CredentialManager.__init__ on such a file
LoadLLMConfig ==
    /\ cpc = "start"
    /\ \E config \in LLMConfigFiles :
         /\ configFile' = config
         /\ credentials' = _load_credentials(config, NoSession).bundle
         /\ session_read' = _load_credentials(config, NoSession).session_read
    /\ sessionFile' = NoSession
    /\ cpc' = "loaded"
    /\ UNCHANGED <<got, notCred>>

\* the sync processes of that user
ConfiguredSync == cpc = "loaded" /\ Next

NextEnrich == LoadLLMConfig \/ ConfiguredSync

SpecEnrich == Init /\ [][NextEnrich]_vars

\* C21: with LLM credentials configured, a first run that fetched one document
\* and wrote its note ends with processed = 1 and failed = 0, exactly one
\* file in the Meetings folder, the id marked in the state file, and the file
\* is the enriched note.
C21_EnrichedEndToEnd ==
    ( /\ get_llm_credentials(credentials).kind = "value"
      /\ lastEvent.op = "finished"
      /\ now = 1
      /\ results.fetched = 1
      /\ written # {} )
    => /\ results.processed = 1
       /\ results.failed = 0
       /\ Cardinality({n \in Names : vault[n].exists}) = 1
       /\ written \subseteq PersistedIds
       /\ \A n \in Names : vault[n].exists => vault[n].enriched

-----------------------------------------------------------------------------
(* src/processor.py main: the runs of --doc-id and --backfill *)

\* main, lines 348-359: GranolaProcessor() and process_specific_document; the
\* process then ends
ProcessSpecificDocument ==
    /\ pc \in {"idle", "exited", "crashed"}
    /\ now < MaxRuns
    /\ now' = now + 1
    /\ \E id \in Ids, fetched \in FetchResults(MaxLookup), path \in BOOLEAN :
         LET r == process_specific_document(vault, fetched, id, path)
         IN /\ vault' = r.vault
            /\ specific' = r.call
            /\ lastEvent' = [op |-> r.op, doc |-> r.doc]
            /\ written' = IF r.op = "specific_written" THEN {doc_id(r.doc)} ELSE {}
    /\ persistedAtStart' = PersistedIds
    /\ exitCode' = 0
    /\ pc' = "exited"
    /\ ProcessEnds
    /\ UNCHANGED <<stateFile, lastSync, statusFile, results, marked>>
    /\ UNCHANGED <<monVars, loopVars, healthVars, weeklyVars, credVars, convVars,
                   detectVars, raceVars>>

\* main, lines 348 and 363, and process_backfill, lines 205-214
ConstructBackfill ==
    /\ pc \in {"idle", "exited", "crashed"}
    /\ now < MaxRuns
    /\ now' = now + 1
    /\ state' = _load_state(stateFile)
    /\ llm_parser' = ~get_llm_config(credentials).raised
    /\ \E days \in Days : results' = NewBackfillResults(now', days)
    /\ ndocs' = 0
    /\ idx' = 0
    /\ doc' = NoDoc
    /\ filepath' = 0
    /\ written' = {}
    /\ persistedAtStart' = PersistedIds
    /\ exitCode' = NoExit
    /\ pc' = "bf_fetch"
    /\ lastEvent' = [op |-> "bf_constructed", doc |-> NoDoc]
    /\ UNCHANGED <<stateFile, lastSync, vault, statusFile, marked>>
    /\ UNCHANGED notSync

\* process_backfill, lines 219-224: fetch_documents returned None
BackfillFetchFails ==
    /\ pc = "bf_fetch"
    /\ results' = fetch_failed(results)
    /\ pc' = "bf_return"
    /\ lastEvent' = [op |-> "bf_fetch_failed", doc |-> NoDoc]
    /\ UNCHANGED <<stateFile, lastSync, vault, statusFile, now, state, llm_parser,
                   ndocs, idx, doc, filepath, exitCode, written, persistedAtStart,
                   marked>>
    /\ UNCHANGED notSync

\* process_backfill, lines 219-227: fetch_documents returned a list of n
\* documents
BackfillFetch ==
    /\ pc = "bf_fetch"
    /\ \E n \in 0..MaxFetch :
         /\ ndocs' = n
         /\ results' = [results EXCEPT !.fetched = n]
         /\ IF n = 0
            THEN pc' = "bf_return" /\ idx' = 0
            ELSE pc' = "bf_doc" /\ idx' = 1
    /\ lastEvent' = [op |-> "bf_fetched", doc |-> NoDoc]
    /\ UNCHANGED <<stateFile, lastSync, vault, statusFile, now, state, llm_parser,
                   doc, filepath, exitCode, written, persistedAtStart, marked>>
    /\ UNCHANGED notSync

\* the end of one pass of the loop of process_backfill
AdvanceBackfill ==
    /\ doc' = NoDoc
    /\ filepath' = 0
    /\ IF idx = ndocs
       THEN pc' = "bf_return" /\ idx' = idx
       ELSE pc' = "bf_doc" /\ idx' = idx + 1

\* process_backfill, lines 230-261: one pass of the loop up to and including
\* the call of the writer, on the document d = documents[idx]
BackfillExamine ==
    /\ pc = "bf_doc"
    /\ \E d \in Docs :
         LET r == route_backfill(state, d)
         IN \/ /\ r = "exception"
               /\ results' = count_failed(results, "Error processing <id>: <e>")
               /\ lastEvent' = [op |-> "bf_exception", doc |-> d]
               /\ AdvanceBackfill
               /\ UNCHANGED <<vault, written>>
            \/ /\ r \notin {"exception", "write"}      \* `continue`
               /\ results' = count_skipped(results)
               /\ lastEvent' = [op |-> IF r = "skip_processed"
                                       THEN "bf_skip_processed" ELSE "bf_skipped",
                                doc |-> d]
               /\ AdvanceBackfill
               /\ UNCHANGED <<vault, written>>
            \/ /\ r = "write"      \* write_meeting_note returned None
               /\ results' = count_failed_backfill(results)
               /\ lastEvent' = [op |-> "bf_write_failed", doc |-> d]
               /\ AdvanceBackfill
               /\ UNCHANGED <<vault, written>>
            \/ /\ r = "write"      \* write_meeting_note returned a path
               /\ vault' = write_meeting_note(vault, d)
               /\ doc' = d
               /\ filepath' = d.name
               /\ results' = count_processed(results, d.name)
               /\ written' = written \cup {doc_id(d)}
               /\ lastEvent' = [op |-> "bf_written", doc |-> d]
               /\ pc' = "bf_mark"
               /\ idx' = idx
    /\ UNCHANGED <<stateFile, lastSync, statusFile, now, state, llm_parser, ndocs,
                   exitCode, persistedAtStart, marked>>
    /\ UNCHANGED notSync

\* process_backfill, line 252: self.state.mark_processed(doc_id)
BackfillMark ==
    /\ pc = "bf_mark"
    /\ LET r == mark_processed(state, stateFile, doc_id(doc), now)
       IN /\ state' = r[1]
          /\ stateFile' = r[2]
    /\ marked' = marked \cup {doc_id(doc)}
    /\ lastEvent' = [op |-> "bf_marked", doc |-> doc]
    /\ AdvanceBackfill
    /\ UNCHANGED <<lastSync, vault, statusFile, now, llm_parser, ndocs, results,
                   exitCode, written, persistedAtStart>>
    /\ UNCHANGED notSync

\* process_backfill, line 270, and main, lines 364-375: the results are
\* printed and the process ends
BackfillReturn ==
    /\ pc = "bf_return"
    /\ exitCode' = 0
    /\ pc' = "exited"
    /\ lastEvent' = [op |-> "bf_finished", doc |-> NoDoc]
    /\ ProcessEnds
    /\ UNCHANGED <<stateFile, lastSync, vault, statusFile, now, results, written,
                   persistedAtStart, marked>>
    /\ UNCHANGED notSync

NextBackfill ==
    \/ ConstructBackfill
    \/ BackfillFetchFails
    \/ BackfillFetch
    \/ BackfillExamine
    \/ BackfillMark
    \/ BackfillReturn

\* backfill runs, one after the other
SpecBackfill == Init /\ [][NextBackfill]_vars

\* backfill runs and document runs, one after the other
NextModes == ProcessSpecificDocument \/ NextBackfill

SpecModes == Init /\ [][NextModes]_vars

\* C22: process_specific_document leaves the state file, the watermark and
\* the set of marked ids as they are and the note it writes is not enriched;
\* it writes the note whether or not the id is in processed_ids, and it
\* returns true exactly when the document was found and the writer returned
\* a path.
C22_SpecificLeavesSyncState ==
    [][ lastEvent'.op \in {"specific_not_found", "specific_write_failed",
                            "specific_written"}
          => /\ stateFile' = stateFile
             /\ lastSync' = lastSync
             /\ marked' = marked
             /\ specific'.success = (specific'.found /\ specific'.path)
             /\ specific'.success = (lastEvent'.op = "specific_written")
             /\ specific'.success
                  => /\ lastEvent'.doc.id = specific'.doc_id
                     /\ vault'[lastEvent'.doc.name] =
                            [exists |-> TRUE, granola_id |-> specific'.doc_id,
                             enriched |-> FALSE]
                     /\ \A n \in Names \ {lastEvent'.doc.name} : vault'[n] = vault[n]
             /\ ~specific'.success => vault' = vault ]_vars

\* the note of an id that is in the state file was written again, and the
\* state file still holds what the backfill run before had left
C22_Witness ==
    /\ lastEvent.op = "specific_written"
    /\ specific.success
    /\ specific.doc_id \in PersistedIds
    /\ specific.doc_id \in persistedAtStart
    /\ vault[lastEvent.doc.name].granola_id = specific.doc_id

\* the events of one pass of the loop of process_backfill
BackfillPassOps == {"bf_exception", "bf_skip_processed", "bf_skipped",
                    "bf_write_failed", "bf_written"}

\* C23: process_backfill skips a document exactly when its id is in Sync
\* State, whatever its valid_meeting value, and otherwise calls the writer; a
\* note written is the plain note and its id is marked next, in memory and in
\* the state file; no run enriches a note or moves the incremental watermark,
\* and the days argument is kept in the result.
C23_BackfillWritesAllNew ==
    /\ [](~lastSync.exists)
    /\ [](\A n \in Names : ~vault[n].enriched)
    /\ [](pc \in {"bf_fetch", "bf_doc", "bf_mark", "bf_return"}
            => results.days \in Days)
    /\ [][ /\ lastEvent'.op \in BackfillPassOps /\ pc = "bf_doc"
               => LET d == lastEvent'.doc
                  IN /\ d.id # UnhashableId
                          => /\ is_processed(state, doc_id(d))
                                   => lastEvent'.op = "bf_skip_processed"
                             /\ ~is_processed(state, doc_id(d))
                                   => lastEvent'.op \in {"bf_written",
                                                         "bf_write_failed"}
                     /\ lastEvent'.op = "bf_written"
                          => /\ vault'[d.name] =
                                   [exists |-> TRUE, granola_id |-> d.id,
                                    enriched |-> FALSE]
                             /\ pc' = "bf_mark"
                     /\ lastEvent'.op # "bf_written" => vault' = vault
                     /\ results'.days = results.days
           /\ pc = "bf_mark"
               => /\ lastEvent'.op = "bf_marked"
                  /\ doc_id(doc) \in state'.processed_ids
                  /\ doc_id(doc) \in _load_state(stateFile').processed_ids ]_vars

\* a document that is not a valid meeting was written and marked
C23_Witness ==
    /\ lastEvent.op = "bf_marked"
    /\ lastEvent.doc.valid_meeting = "false"
    /\ doc_id(lastEvent.doc) \in PersistedIds
    /\ vault[lastEvent.doc.name].granola_id = lastEvent.doc.id
    /\ results.processed = 1

-----------------------------------------------------------------------------
(* Runs of process_new_meetings and of process_backfill, one after the other *)

NextProcessor == Next \/ NextBackfill

SpecProcessor == Init /\ [][NextProcessor]_vars

\* C28: every id of a document in the state file's processed_ids has a note
\* in the Meetings folder that carries it.
C28_ProcessedIdsHaveNotes ==
    \A i \in PersistedIds \ {UnknownId} :
        \E n \in Names : vault[n].exists /\ vault[n].granola_id = i

\* C29: when the fetch of a run succeeded, its result counts every fetched
\* document once: fetched = processed + failed + skipped, notes_created has
\* one entry per processed document, and failed > 0 comes with an error.
C29_EachDocumentCountedOnce ==
    ( /\ pc \in {"status", "bf_return"}
      /\ "API fetch failed" \notin Range(results.errors) )
    => /\ results.fetched = results.processed + results.failed + results.skipped
       /\ Len(results.notes_created) = results.processed
       /\ results.failed > 0 => results.errors # <<>>

-----------------------------------------------------------------------------
(* Two processes run process_new_meetings on the same state file and vault *)

\* what the steps of the two processes leave alone
raceFrame == <<lastSync, statusFile, now, pc, state, llm_parser, ndocs, idx, doc,
               filepath, results, exitCode, lastEvent, written, persistedAtStart,
               marked, monVars, loopVars, healthVars, weeklyVars, credVars,
               convVars, detectVars, modeVars>>

\* the process after one pass of its loop
advance(proc) ==
    [proc EXCEPT !.doc = NoDoc,
                 !.left = @ - 1,
                 !.pc = IF proc.left = 1 THEN "done" ELSE "doc"]

\* GranolaProcessor() and the fetch of process_new_meetings, lines 83-95, in
\* process p: the state file is read and the API returns n documents
RaceStart(p) ==
    /\ procs[p].pc = "idle"
    /\ \E n \in 0..MaxRaceDocs :
         procs' = [procs EXCEPT ![p] =
                      [pc |-> IF n = 0 THEN "done" ELSE "doc",
                       state |-> construct_state(stateFile),
                       doc |-> NoDoc,
                       left |-> n]]
    /\ overlapped' = (overlapped \/ \E q \in Procs \ {p} : running(procs[q]))
    /\ UNCHANGED <<stateFile, vault, noteWrites, markedBy, lostIds>>
    /\ UNCHANGED raceFrame

\* process_new_meetings, lines 98-122, in process p: one pass of the loop up to
\* the note written
RaceExamine(p) ==
    /\ procs[p].pc = "doc"
    /\ \E d \in Docs :
         IF route(procs[p].state, d) = "write"
         THEN /\ vault' = write_meeting_note(vault, d)
              /\ noteWrites' = [noteWrites EXCEPT ![doc_id(d)] = @ + 1]
              /\ procs' = [procs EXCEPT ![p] = [@ EXCEPT !.pc = "mark", !.doc = d]]
         ELSE /\ procs' = [procs EXCEPT ![p] = advance(@)]
              /\ UNCHANGED <<vault, noteWrites>>
    /\ UNCHANGED <<stateFile, markedBy, lostIds, overlapped>>
    /\ UNCHANGED raceFrame

\* process_new_meetings, line 126, in process p: mark_processed adds the id to
\* the set in memory and writes the whole set to the state file
RaceMark(p) ==
    /\ procs[p].pc = "mark"
    /\ LET id == doc_id(procs[p].doc)
           r == mark_processed(procs[p].state, stateFile, id, now)
       IN /\ stateFile' = r[2]
          /\ procs' = [procs EXCEPT ![p] = advance([@ EXCEPT !.state = r[1]])]
          /\ markedBy' = [markedBy EXCEPT ![p] = @ \cup {id}]
          /\ lostIds' = lostIds \cup
                 {i \in UNION {markedBy[q] : q \in Procs \ {p}} :
                     i \notin _load_state(r[2]).processed_ids}
    /\ UNCHANGED <<vault, noteWrites, overlapped>>
    /\ UNCHANGED raceFrame

NextRace == \E p \in Procs : RaceStart(p) \/ RaceExamine(p) \/ RaceMark(p)

SpecRace == Init /\ [][NextRace]_vars

\* C25: as long as no process was started while the other was running, no
\* document id has two notes written for it and no save of the state file
\* leaves out an id the other process had marked; with the two processes
\* running side by side both happen.
C25_SerializedRunsAreSafe ==
    ~overlapped =>
        /\ \A i \in Ids : noteWrites[i] <= 1
        /\ lostIds = {}

\* the two processes ran side by side: the state file written last lacks an
\* id the other process had marked, and two notes were written for one id
C25_Witness ==
    /\ overlapped
    /\ \A p \in Procs : procs[p].pc = "done"
    /\ \E i \in Ids : noteWrites[i] = 2
    /\ \E i \in lostIds : i \notin PersistedIds

====
